---- MODULE Spec2Model ----
(***************************************************************************)
(* Seal: the sealed-file envelope (public/seal-crypto.js) and the viewer's *)
(* validation / decryption pipeline (app/viewer/page.tsx).                 *)
(*                                                                         *)
(* The platform primitives (Web Crypto, atob/btoa, Date) are modelled      *)
(* symbolically: a ciphertext remembers the key and iv it was made under   *)
(* and opens only under the same pair, a wrapped key opens only under the  *)
(* private half of the pair it was wrapped for, random values are fresh.   *)
(* A value that may be absent (undefined, null, a missing property) is a   *)
(* set of at most one element.                                             *)
(***************************************************************************)
EXTENDS Integers, Sequences, FiniteSets, TLC

\* ---------------------------------------------------------------- bounds
\* Date.now() runs over 0..MaxNow.
MaxNow == 2
\* Longest recipient list handed to createSealFile.
MaxRecipients == 2
\* Direct calls of createSealFile / openSealFile that may be in flight at once.
MaxOps == 2
\* Runs of handleFileLoaded that may be suspended at an await at once.
MaxPending == 1
\* Longest Origin header, in pieces of text.
MaxOriginLen == 3
\* Calls of the files API answered in one behaviour.
MaxServed == 2
\* Longest pathname of a page request, in pieces of text.
MaxPathLen == 3
\* Longest list of known extension ids.
MaxIds == 2

\* ------------------------------------------------------- absent / present
None == {}
Some(v) == {v}
The(o) == CHOOSE v \in o : TRUE

\* ----------------------------------------------------------------- strings
\* A string is a tuple of characters; '' is the empty tuple (falsy).
NoEmail == <<>>
a_x == <<"a", "@", "x">>
A_X == <<"A", "@", "X">>
b_x == <<"b", "@", "x">>
B_x == <<"B", "@", "x">>
c_x == <<"c", "@", "x">>
demo_seal == <<"d", "@", "s">>

\* String.prototype.toLowerCase, character by character.
LowerChar(c) ==
    CASE c = "A" -> "a"
      [] c = "B" -> "b"
      [] c = "C" -> "c"
      [] c = "X" -> "x"
      [] OTHER -> c

toLowerCase(s) == [i \in 1..Len(s) |-> LowerChar(s[i])]

\* ------------------------------------------------------------------- dates
\* Date.prototype.toISOString and new Date(iso).getTime().
toISOString(t) == [iso |-> t]
getTime(s) == s.iso
\* toLocaleDateString('en-US', {month, day, year}): the text shown for a date.
toLocaleDateString(t) == [date |-> t]

\* ------------------------------------------------------------------- users
\* One RSA key pair per identity; the profile directory hands out the public
\* half for an email (getUserPublicKey).
Users == {"alice", "bob", "carol"}

UserOf(email) ==
    CASE toLowerCase(email) = a_x -> "alice"
      [] toLowerCase(email) = b_x -> "bob"
      [] OTHER -> "carol"

\* exportKey(key, 'spki' | 'pkcs8'): the base64 text of a key.
PublicKeyBase64(u) == [format |-> "spki", user |-> u]
PrivateKeyBase64(u) == [format |-> "pkcs8", user |-> u]
GarbageKeyBase64 == [format |-> "garbage", user |-> "nobody"]

\* ---------------------------------------------------------------- base64
\* btoa over the bytes of a buffer; atob throws InvalidCharacterError on text
\* that is not base64 (a missing property reads as the text "undefined").
\* When the byte count is no multiple of 3 the last character has bits that
\* encode nothing: btoa writes them as 0 and atob discards them unread.
arrayBufferToBase64(buffer) == [b64 |-> TRUE, bytes |-> buffer, spare |-> 0]
base64ToArrayBuffer(base64) == IF base64.b64 THEN Some(base64.bytes) ELSE None

\* ------------------------------------------------------------ primitives
\* crypto.subtle.generateKey(AES-GCM 256) and crypto.getRandomValues(new
\* Uint8Array(12)): the n-th draw from the platform's random source is a value
\* no earlier draw has given.
\* A slip in key generation: one key, made once, serves every call.
generateFileEncryptionKey_Cached(n) == [type |-> "secret", k |-> 0]

generateFileEncryptionKey(n) == [type |-> "secret", k |-> n]
getRandomValues(n) == [length |-> 12, random |-> n]

\* crypto.subtle.encrypt(AES-GCM): ciphertext and tag as one blob.
encryptFile(fileData, aesKey, iv) ==
    [encryptedData |-> [k |-> aesKey.k, iv |-> iv, plain |-> fileData, intact |-> TRUE],
     iv |-> iv]

\* A slip in decryptFile: a cipher mode without a tag, which decrypts whatever
\* it is given.
decryptFile_NoTagCheck(encryptedData, aesKey, iv) ==
    IF encryptedData.k = aesKey.k THEN Some(encryptedData.plain) ELSE None

\* crypto.subtle.decrypt(AES-GCM): the tag is verified against key, iv and the
\* ciphertext bytes; a mismatch rejects with OperationError.
decryptFile(encryptedData, aesKey, iv) ==
    IF encryptedData.intact /\ encryptedData.k = aesKey.k /\ encryptedData.iv = iv
    THEN Some(encryptedData.plain)
    ELSE None

\* exportKey('raw') then crypto.subtle.encrypt(RSA-OAEP) under the public key.
encryptKeyForRecipient(aesKey, recipientPublicKey) ==
    [wrappedFor |-> recipientPublicKey.user, raw |-> aesKey.k, intact |-> TRUE]

\* A slip in the unwrapping: any private key opens any wrapped key.
decryptKeyForRecipient_AnyKey(encryptedKey, userPrivateKey) ==
    IF encryptedKey.intact
    THEN Some([type |-> "secret", k |-> encryptedKey.raw])
    ELSE None

\* crypto.subtle.decrypt(RSA-OAEP) then importKey('raw'): only the private half
\* of the pair the key was wrapped for unpads it.
decryptKeyForRecipient(encryptedKey, userPrivateKey) ==
    IF encryptedKey.intact /\ encryptedKey.wrappedFor = userPrivateKey.user
    THEN Some([type |-> "secret", k |-> encryptedKey.raw])
    ELSE None

\* atob then importKey('spki', ..., ['encrypt']).
importPublicKey(base64Key) ==
    IF base64Key.format = "spki"
    THEN Some([type |-> "public", user |-> base64Key.user])
    ELSE None

\* A slip in the import: whatever parses as a key is taken, of either format.
importPrivateKey_Lenient(base64Key) ==
    IF base64Key.format \in {"pkcs8", "spki"}
    THEN Some([type |-> "private", user |-> base64Key.user])
    ELSE None

\* atob then importKey('pkcs8', ..., ['decrypt']).
importPrivateKey(base64Key) ==
    IF base64Key.format = "pkcs8"
    THEN Some([type |-> "private", user |-> base64Key.user])
    ELSE None

\* ---------------------------------------------------------- createSealFile
\* The loop over the recipients: one {email, encryptedKey} per recipient, in
\* order; None as soon as one import throws.
\* A slip in the loop: a recipient whose key does not import is skipped.
RECURSIVE WrapForAll_SkipsFailed(_, _)
WrapForAll_SkipsFailed(recipients, aesKey) ==
    IF recipients = <<>> THEN Some(<<>>)
    ELSE LET publicKey == importPublicKey(Head(recipients).publicKey)
             rest == WrapForAll_SkipsFailed(Tail(recipients), aesKey)
         IN  IF publicKey = None THEN rest
             ELSE Some(<<[email |-> Head(recipients).email,
                          encryptedKey |-> arrayBufferToBase64(
                              encryptKeyForRecipient(aesKey, The(publicKey)))]>>
                       \o The(rest))

\* A slip in the loop: the entries are collected last recipient first.
RECURSIVE WrapForAll_Reversed(_, _)
WrapForAll_Reversed(recipients, aesKey) ==
    IF recipients = <<>> THEN Some(<<>>)
    ELSE LET publicKey == importPublicKey(Head(recipients).publicKey)
             rest == WrapForAll_Reversed(Tail(recipients), aesKey)
         IN  IF publicKey = None \/ rest = None THEN None
             ELSE Some(The(rest)
                       \o <<[email |-> Head(recipients).email,
                             encryptedKey |-> arrayBufferToBase64(
                                 encryptKeyForRecipient(aesKey, The(publicKey)))]>>)

RECURSIVE WrapForAll(_, _)
WrapForAll(recipients, aesKey) ==
    IF recipients = <<>> THEN Some(<<>>)
    ELSE LET publicKey == importPublicKey(Head(recipients).publicKey)
             rest == WrapForAll(Tail(recipients), aesKey)
         IN  IF publicKey = None \/ rest = None THEN None
             ELSE Some(<<[email |-> Head(recipients).email,
                          encryptedKey |-> arrayBufferToBase64(
                              encryptKeyForRecipient(aesKey, The(publicKey)))]>>
                       \o The(rest))

\* A slip in createSealFile: the recipients get a key other than the one the
\* file was encrypted under.
createSealFile_WrapsOtherKey(file, recipients, fileId, metadata, n, t) ==
    LET aesKey == generateFileEncryptionKey(n)
        enc == encryptFile(file.data, aesKey, getRandomValues(n))
        recipientKeys == WrapForAll(recipients, generateFileEncryptionKey(n + 1))
    IN  IF recipientKeys = None THEN None
        ELSE Some([version |-> 1,
                   fileId |-> fileId,
                   fileName |-> file.name,
                   fileType |-> file.type,
                   fileSize |-> file.size,
                   encryptedData |-> Some(arrayBufferToBase64(enc.encryptedData)),
                   iv |-> Some(arrayBufferToBase64(enc.iv)),
                   recipients |-> Some(The(recipientKeys)),
                   metadata |-> Some([expiresAt |-> metadata.expiresAt,
                                      createdAt |-> Some(toISOString(t))])])

\* A slip in the return statement: createdAt is written before the spread of
\* the caller's metadata, so a createdAt the caller supplies wins.
createSealFile_SpreadLast(file, recipients, fileId, metadata, n, t) ==
    LET aesKey == generateFileEncryptionKey(n)
        enc == encryptFile(file.data, aesKey, getRandomValues(n))
        recipientKeys == WrapForAll(recipients, aesKey)
    IN  IF recipientKeys = None THEN None
        ELSE Some([version |-> 1,
                   fileId |-> fileId,
                   fileName |-> file.name,
                   fileType |-> file.type,
                   fileSize |-> file.size,
                   encryptedData |-> Some(arrayBufferToBase64(enc.encryptedData)),
                   iv |-> Some(arrayBufferToBase64(enc.iv)),
                   recipients |-> Some(The(recipientKeys)),
                   metadata |-> Some([expiresAt |-> metadata.expiresAt,
                                      createdAt |-> IF metadata.createdAt # None
                                                    THEN metadata.createdAt
                                                    ELSE Some(toISOString(t))])])

\* The envelope createSealFile returns on its n-th call at time t, or None
\* when it throws.
createSealFile(file, recipients, fileId, metadata, n, t) ==
    LET aesKey == generateFileEncryptionKey(n)
        enc == encryptFile(file.data, aesKey, getRandomValues(n))
        recipientKeys == WrapForAll(recipients, aesKey)
    IN  IF recipientKeys = None THEN None
        ELSE Some([version |-> 1,
                   fileId |-> fileId,
                   fileName |-> file.name,
                   fileType |-> file.type,
                   fileSize |-> file.size,
                   encryptedData |-> Some(arrayBufferToBase64(enc.encryptedData)),
                   iv |-> Some(arrayBufferToBase64(enc.iv)),
                   recipients |-> Some(The(recipientKeys)),
                   metadata |-> Some([expiresAt |-> metadata.expiresAt,
                                      createdAt |-> Some(toISOString(t))])])

\* ------------------------------------------------------------ openSealFile
\* A slip in the lookup: the emails are compared as written.
RECURSIVE find_CaseSensitive(_, _)
find_CaseSensitive(recipients, userEmail) ==
    IF recipients = <<>> THEN None
    ELSE IF Head(recipients).email = userEmail
         THEN Some(Head(recipients))
         ELSE find_CaseSensitive(Tail(recipients), userEmail)

\* Array.prototype.find with r.email.toLowerCase() === userEmail.toLowerCase():
\* the first matching entry, or undefined.
RECURSIVE find(_, _)
find(recipients, userEmail) ==
    IF recipients = <<>> THEN None
    ELSE IF toLowerCase(Head(recipients).email) = toLowerCase(userEmail)
         THEN Some(Head(recipients))
         ELSE find(Tail(recipients), userEmail)

\* ------------------------------------------------------------------ viewer
\* A slip in the authorization check: any entry with an email counts.
isRecipient_AnyEntry(recipients, email) ==
    \E i \in 1..Len(recipients) : recipients[i].email # NoEmail

\* seal.recipients.some((r) => r.email.toLowerCase() === email.toLowerCase())
isRecipient(recipients, email) ==
    \E i \in 1..Len(recipients) : toLowerCase(recipients[i].email) = toLowerCase(email)

VARIABLES
    now,            \* Date.now()
    sealCount,      \* createSealFile calls made so far
    built,          \* the createSealFile call: its arguments and what it returned
    demoMode,       \* DEMO_MODE of the build
    sessionEmail,   \* supabase.auth.getUser(): the session user's email, '' if none
    localStorage,   \* seal_user_email and seal_private_key
    effect,         \* the mount effect: "pending" or "done"
    userEmail,      \* useState: userEmail
    step,           \* useState: step
    sealFile,       \* useState: sealFile
    decryptedFile,  \* useState: decryptedFile
    error,          \* useState: error
    pc,             \* where the running handleFileLoaded stands
    run,            \* its locals: seal, email, privateKey and those of openSealFile
    ops,            \* direct calls of createSealFile / openSealFile in flight: their locals
    drawn,          \* values the platform's random source has handed out
    pending,        \* runs of handleFileLoaded suspended at an await
    api,            \* the call of POST /api/files, OPTIONS or storeEncryptedFile in flight
    sealed_files,   \* table sealed_files: the ids of its rows
    file_recipients,\* table file_recipients: its rows
    served,         \* calls answered so far
    prof,           \* the call of POST /api/profile in flight
    profiles,       \* table profiles: the row of each user id, if any
    user_metadata,  \* auth.users: the user_metadata of each user id, if set
    nav,            \* the last page request and what the middleware did with it
    logout,         \* where handleLogout of the dashboard stands
    bridge          \* the call of sendToExtension in flight

vars == <<now, sealCount, built, demoMode, sessionEmail, localStorage, effect,
          userEmail, step, sealFile, decryptedFile, error, pc, run, ops, drawn,
          pending, api, sealed_files, file_recipients, served,
          prof, profiles, user_metadata, nav, logout, bridge>>

senderVars == <<sealCount, built, ops, drawn>>
apiVars == <<api, sealed_files, file_recipients, served>>
\* What the steps of a handler run leave alone: the build, the session, the
\* storage, the runs that are suspended and the server side.
siteVars == <<prof, profiles, user_metadata>>
pageVars == <<nav, logout, bridge>>
envVars == <<demoMode, sessionEmail, localStorage, pending, apiVars, siteVars, pageVars>>
viewVars == <<step, sealFile, decryptedFile, error>>

\* ------------------------------------------------------------------ inputs
Files ==
    {[name |-> "a.txt", type |-> "text/plain", size |-> 10, data |-> "ten bytes"],
     [name |-> "b.pdf", type |-> "application/pdf", size |-> 20, data |-> "twenty bytes"]}

FileIds == {"file-1"}

\* What the sender's recipient picker produces: an email as typed and the key
\* the directory holds for that identity, or a key string that is not a key.
RecipientInputs ==
    {[email |-> a_x, publicKey |-> PublicKeyBase64(UserOf(a_x))],
     [email |-> B_x, publicKey |-> PublicKeyBase64(UserOf(B_x))],
     [email |-> c_x, publicKey |-> GarbageKeyBase64]}

RecipientLists == UNION {[1..n -> RecipientInputs] : n \in 0..MaxRecipients}

\* The caller's metadata: no expiry, or an expiry at instant 1 (the clock starts
\* at 0, so the instants before, at and after the expiry are all visited).
\* The second one also brings a createdAt of its own.
Metadatas == {[expiresAt |-> None, createdAt |-> None],
              [expiresAt |-> Some(toISOString(1)), createdAt |-> Some(toISOString(9))]}

SessionEmails == {NoEmail, A_X, c_x}
StoredEmails == {None, Some(b_x)}
\* What seal_private_key may hold: nothing, text that is no key, a key of
\* the wrong format (a public key), or a private key.
StoredKeys == {None, Some(GarbageKeyBase64), Some(PublicKeyBase64("alice")),
               Some(PrivateKeyBase64("alice")), Some(PrivateKeyBase64("bob"))}

NoLocals == [seal |-> None, email |-> NoEmail, userPrivateKeyBase64 |-> None,
             recipientEntry |-> None, privateKey |-> None, aesKey |-> None]

NoMessage == [text |-> "", date |-> None, email |-> NoEmail, cause |-> ""]

\* The locals of one call of createSealFile or openSealFile, before it is made.
FreeOp == [kind |-> "free", at |-> "free", request |-> None, call |-> None,
           aesKey |-> None, iv |-> None, enc |-> None, recipientKeys |-> <<>>,
           recipientEntry |-> None, privateKey |-> None,
           result |-> None, thrown |-> ""]

NoOps == [i \in 1..MaxOps |-> FreeOp]

\* No call of sendToExtension in flight.
NoBridge == [at |-> "idle", runtime |-> FALSE, ids |-> <<>>, tries |-> <<>>,
             result |-> None]

\* The ids of auth.users.
UserIds == {"user-1", "user-2"}

\* No call of POST /api/profile in flight.
NoProf == [route |-> "none", at |-> "idle", origin |-> None, body |-> None,
           bearer |-> None, cookie |-> None, auth |-> None, response |-> None]

\* No call of the API in flight.
NoApi == [kind |-> "none", at |-> "idle", origin |-> None, body |-> None,
          fileRecord |-> None, inserted |-> FALSE, response |-> None]

Init ==
    /\ now = 0
    /\ sealCount = 0
    /\ built = None
    /\ demoMode \in BOOLEAN
    /\ sessionEmail \in SessionEmails
    /\ demoMode => sessionEmail = NoEmail
    /\ localStorage \in [seal_user_email : StoredEmails, seal_private_key : StoredKeys]
    /\ effect = "pending"
    /\ userEmail = NoEmail
    /\ step = "upload"
    /\ sealFile = None
    /\ decryptedFile = None
    /\ error = None
    /\ pc = "idle"
    /\ run = NoLocals
    /\ ops = NoOps
    /\ drawn = 0
    /\ pending = <<>>
    /\ api = NoApi
    /\ sealed_files = {}
    /\ file_recipients = {}
    /\ served = 0
    /\ prof = NoProf
    /\ profiles = [u \in UserIds |-> None]
    /\ user_metadata = [u \in UserIds |-> None]
    /\ nav = None
    /\ logout = "idle"
    /\ bridge = NoBridge

\* ------------------------------------------------------------- environment
\* JavaScript runs a handler to its next await before anything else runs.
Quiescent == pc \in {"idle", "import", "unwrap", "decrypt", "thrown"}

\* Date.now() is read by the expiry check only, at the start of a run: the
\* clock is let run while a built file waits to be loaded.
Tick ==
    /\ pc = "idle"
    /\ step = "upload"
    /\ built # None
    /\ now < MaxNow
    /\ now' = now + 1
    /\ UNCHANGED <<senderVars, envVars, effect, userEmail, viewVars, pc, run>>

\* useEffect on mount: DEMO_MODE sets the demo address at once; otherwise
\* getUser() resolves later and sets the session user's email if there is one.
MountEffect ==
    /\ effect = "pending"
    /\ Quiescent
    /\ step \in {"upload", "decrypting"}
    /\ effect' = "done"
    /\ userEmail' = IF demoMode THEN demo_seal
                    ELSE IF sessionEmail # NoEmail THEN sessionEmail
                    ELSE userEmail
    /\ UNCHANGED <<now, senderVars, envVars, viewVars, pc, run>>

\* The sender builds the envelope of this behaviour; what createSealFile returns
\* is the .seal file the recipient gets.
Seal(file, recipients, fileId, metadata) ==
    /\ pc = "idle"
    /\ step = "upload"
    /\ built = None
    /\ built' = Some([file |-> file, recipients |-> recipients,
                      fileId |-> fileId, metadata |-> metadata, at |-> now,
                      result |-> createSealFile(file, recipients, fileId, metadata,
                                                sealCount + 1, now)])
    /\ sealCount' = sealCount + 1
    /\ UNCHANGED <<now, envVars, effect, userEmail, viewVars, pc, run, ops, drawn>>

\* The .seal file is plain JSON in the hands of whoever carries it: the viewer
\* receives it as `parsed: unknown`, as built or altered on the way.
TamperKinds == {"none", "dropMetadata", "dropRecipients", "emptyRecipients", "futureVersion",
                "dropIv", "dropEncryptedData", "flipCiphertext", "flipIv",
                "flipSpareBits"}

FlipBytes(base64) ==
    [base64 EXCEPT !.bytes = [@ EXCEPT !.intact = FALSE]]

Tampered(seal, kind) ==
    CASE kind = "none" -> seal
      [] kind = "dropMetadata" -> [seal EXCEPT !.metadata = None]
      [] kind = "dropRecipients" -> [seal EXCEPT !.recipients = None]
      [] kind = "emptyRecipients" -> [seal EXCEPT !.recipients = Some(<<>>)]
      [] kind = "futureVersion" -> [seal EXCEPT !.version = 2]
      [] kind = "dropIv" -> [seal EXCEPT !.iv = None]
      [] kind = "dropEncryptedData" -> [seal EXCEPT !.encryptedData = None]
      [] kind = "flipCiphertext" ->
            [seal EXCEPT !.encryptedData = Some(FlipBytes(The(seal.encryptedData)))]
      [] kind = "flipIv" ->
            [seal EXCEPT !.iv = Some([The(seal.iv) EXCEPT !.bytes.random = 0 - @])]
      [] kind = "flipSpareBits" ->
            [seal EXCEPT !.encryptedData = Some([The(seal.encryptedData) EXCEPT !.spare = 1])]

\* -------------------------------------------------------- handleFileLoaded
\* The ViewerError objects the handler builds.
ExpiredError(expiresAt) ==
    [title |-> "File expired", icon |-> "expired",
     message |-> [NoMessage EXCEPT !.text = "This file expired on",
                                   !.date = Some(toLocaleDateString(getTime(expiresAt)))]]

NotLoggedInError ==
    [title |-> "Not logged in", icon |-> "unauthorized",
     message |-> [NoMessage EXCEPT !.text = "You need to log in to decrypt this file."]]

\* A slip in the message: it names the first recipient the file is for.
NotAuthorizedError_NamesRecipient(email) ==
    [title |-> "Not authorized", icon |-> "unauthorized",
     message |-> [NoMessage EXCEPT !.text = "You are not a recipient of this file.",
                                   !.email = IF The(The(run.seal).recipients) = <<>>
                                             THEN email
                                             ELSE The(The(run.seal).recipients)[1].email]]

NotAuthorizedError(email) ==
    [title |-> "Not authorized", icon |-> "unauthorized",
     message |-> [NoMessage EXCEPT !.text = "You are not a recipient of this file.",
                                   !.email = email]]

KeyNotFoundError ==
    [title |-> "Private key not found", icon |-> "generic",
     message |-> [NoMessage EXCEPT !.text = "Your encryption key was not found on this device."]]

\* catch (err): err.message decides the text.
CaughtError(message) ==
    [title |-> "Decryption failed", icon |-> "generic",
     message |-> IF message = "You are not a recipient of this file"
                 THEN [NoMessage EXCEPT !.text = "You are not authorized to decrypt this file."]
                 ELSE [NoMessage EXCEPT !.text = "Could not decrypt the file.",
                                        !.cause = message]]

\* A slip in the catch block: a failed decryption is tried again from the
\* unwrapping on.
Fail_RetriesDecryption(e) ==
    IF pc = "decrypt"
    THEN /\ pc' = "unwrap"
         /\ UNCHANGED <<run, viewVars>>
    ELSE /\ error' = Some(e)
         /\ step' = "error"
         /\ pc' = "idle"
         /\ run' = NoLocals
         /\ UNCHANGED <<sealFile, decryptedFile>>

\* setError(e); setStep('error'); return
Fail(e) ==
    /\ error' = Some(e)
    /\ step' = "error"
    /\ pc' = "idle"
    /\ run' = NoLocals
    /\ UNCHANGED <<sealFile, decryptedFile>>

\* An exception nothing catches: the handler's promise rejects, the state stays.
Throw ==
    /\ pc' = "thrown"
    /\ run' = NoLocals
    /\ UNCHANGED viewVars

\* userEmail || localStorage.getItem('seal_user_email') || ''
CallerEmail ==
    IF userEmail # NoEmail THEN userEmail
    ELSE IF localStorage.seal_user_email # None THEN The(localStorage.seal_user_email)
    ELSE NoEmail

\* SealFileUpload is rendered in the upload step only; it hands over the parsed
\* file: setSealFile(seal); setStep('validating').
FileLoaded(parsed) ==
    /\ pc = "idle"
    /\ step = "upload"
    /\ demoMode => effect = "done"
    /\ sealFile' = Some(parsed)
    /\ step' = "validating"
    /\ pc' = "expiry"
    /\ run' = [NoLocals EXCEPT !.seal = Some(parsed)]
    /\ UNCHANGED <<now, senderVars, envVars, effect, userEmail, decryptedFile, error>>

\* The file dropped on the page is the built envelope, as sent or altered; it
\* can be dropped again after a reset.
Upload ==
    \E kind \in TamperKinds :
        /\ built # None
        /\ The(built).result # None
        /\ FileLoaded(Tampered(The(The(built).result), kind))

\* A slip in the comparison: the expiry instant itself counts as expired.
isExpired_Inclusive(expiresAt, t) == t >= getTime(expiresAt)

\* Date.now() > new Date(seal.metadata.expiresAt).getTime()
isExpired(expiresAt, t) == t > getTime(expiresAt)

\* Check: is the file expired?
CheckExpiry ==
    /\ pc = "expiry"
    /\ LET seal == The(run.seal)
       IN  IF seal.metadata = None THEN Throw
           ELSE LET expiresAt == The(seal.metadata).expiresAt
                IN  IF expiresAt # None /\ isExpired(The(expiresAt), now)
                    THEN Fail(ExpiredError(The(expiresAt)))
                    ELSE /\ pc' = "auth"
                         /\ UNCHANGED <<viewVars, run>>
    /\ UNCHANGED <<now, senderVars, envVars, effect, userEmail>>

\* A slip: the setStep('decrypting') call is left out.
StepAfterValidation_Skipped == "validating"

\* setStep('decrypting'): the step entered once validation has passed.
StepAfterValidation == "decrypting"

\* Check: is the current user a recipient?  On success setStep('decrypting').
CheckRecipient ==
    /\ pc = "auth"
    /\ LET seal == The(run.seal)
           email == CallerEmail
       IN  IF email = NoEmail THEN Fail(NotLoggedInError)
           ELSE IF seal.recipients = None THEN Throw
           ELSE IF ~isRecipient(The(seal.recipients), email)
                THEN Fail(NotAuthorizedError(email))
           ELSE /\ step' = StepAfterValidation
                /\ pc' = "key"
                /\ run' = [run EXCEPT !.email = email]
                /\ UNCHANGED <<sealFile, decryptedFile, error>>
    /\ UNCHANGED <<now, senderVars, envVars, effect, userEmail>>

\* A slip: the `if (!privateKey)` branch is left out and openSealFile is called
\* with whatever getItem returned.
LoadPrivateKey_NoKeyCheck ==
    /\ pc = "key"
    /\ LET seal == The(run.seal)
           privateKey == IF localStorage.seal_private_key = None
                         THEN Some(GarbageKeyBase64)
                         ELSE localStorage.seal_private_key
           recipientEntry == find(The(seal.recipients), run.email)
       IN  IF recipientEntry = None
           THEN Fail(CaughtError("You are not a recipient of this file"))
           ELSE /\ pc' = "import"
                /\ run' = [run EXCEPT !.userPrivateKeyBase64 = privateKey,
                                      !.recipientEntry = recipientEntry]
                /\ UNCHANGED viewVars
    /\ UNCHANGED <<now, senderVars, envVars, effect, userEmail>>

\* localStorage.getItem('seal_private_key'), then the call of openSealFile up to
\* its first await: the lookup of the caller's entry.
LoadPrivateKey ==
    /\ pc = "key"
    /\ LET seal == The(run.seal)
           privateKey == localStorage.seal_private_key
           recipientEntry == find(The(seal.recipients), run.email)
       IN  IF privateKey = None THEN Fail(KeyNotFoundError)
           ELSE IF recipientEntry = None
                THEN Fail(CaughtError("You are not a recipient of this file"))
           ELSE /\ pc' = "import"
                /\ run' = [run EXCEPT !.userPrivateKeyBase64 = privateKey,
                                      !.recipientEntry = recipientEntry]
                /\ UNCHANGED viewVars
    /\ UNCHANGED <<now, senderVars, envVars, effect, userEmail>>

\* await importPrivateKey(userPrivateKeyBase64)
ImportPrivateKey ==
    /\ pc = "import"
    /\ LET privateKey == importPrivateKey(The(run.userPrivateKeyBase64))
       IN  IF privateKey = None THEN Fail(CaughtError("DataError"))
           ELSE /\ pc' = "unwrap"
                /\ run' = [run EXCEPT !.privateKey = privateKey]
                /\ UNCHANGED viewVars
    /\ UNCHANGED <<now, senderVars, envVars, effect, userEmail>>

\* A slip in openSealFile: the entry that was used is taken off the envelope's
\* list (the envelope object is the one the viewer holds).
UnwrapKey_ConsumesEntry ==
    /\ pc = "unwrap"
    /\ LET encryptedKeyBuffer == base64ToArrayBuffer(The(run.recipientEntry).encryptedKey)
           consumed == [The(run.seal) EXCEPT !.recipients = Some(Tail(The(@)))]
       IN  IF encryptedKeyBuffer = None THEN Fail(CaughtError("InvalidCharacterError"))
           ELSE LET aesKey == decryptKeyForRecipient(The(encryptedKeyBuffer),
                                                     The(run.privateKey))
                IN  IF aesKey = None THEN Fail(CaughtError("OperationError"))
                    ELSE /\ pc' = "decrypt"
                         /\ run' = [run EXCEPT !.aesKey = aesKey, !.seal = Some(consumed)]
                         /\ sealFile' = Some(consumed)
                         /\ UNCHANGED <<step, decryptedFile, error>>
    /\ UNCHANGED <<now, senderVars, envVars, effect, userEmail>>

\* await decryptKeyForRecipient(base64ToArrayBuffer(recipientEntry.encryptedKey), privateKey)
UnwrapKey ==
    /\ pc = "unwrap"
    /\ LET encryptedKeyBuffer == base64ToArrayBuffer(The(run.recipientEntry).encryptedKey)
       IN  IF encryptedKeyBuffer = None THEN Fail(CaughtError("InvalidCharacterError"))
           ELSE LET aesKey == decryptKeyForRecipient(The(encryptedKeyBuffer),
                                                     The(run.privateKey))
                IN  IF aesKey = None THEN Fail(CaughtError("OperationError"))
                    ELSE /\ pc' = "decrypt"
                         /\ run' = [run EXCEPT !.aesKey = aesKey]
                         /\ UNCHANGED viewVars
    /\ UNCHANGED <<now, senderVars, envVars, effect, userEmail>>

\* What openSealFile resolves to once the key is unwrapped: the DecryptedFile, or
\* None with the exception's message.
OpenResult(seal, aesKey) ==
    LET encryptedData == IF seal.encryptedData = None THEN None
                         ELSE base64ToArrayBuffer(The(seal.encryptedData))
        iv == IF seal.iv = None THEN None ELSE base64ToArrayBuffer(The(seal.iv))
    IN  IF encryptedData = None \/ iv = None
        THEN [file |-> None, thrown |-> "InvalidCharacterError"]
        ELSE LET decryptedData == decryptFile(The(encryptedData), aesKey, The(iv))
             IN  IF decryptedData = None
                 THEN [file |-> None, thrown |-> "OperationError"]
                 ELSE [file |-> Some([data |-> The(decryptedData),
                                      fileName |-> seal.fileName,
                                      fileType |-> seal.fileType]),
                       thrown |-> ""]

\* await decryptFile(...): on success setDecryptedFile(result); setStep('viewing').
DecryptData ==
    /\ pc = "decrypt"
    /\ LET result == OpenResult(The(run.seal), The(run.aesKey))
       IN  IF result.file = None THEN Fail(CaughtError(result.thrown))
           ELSE /\ decryptedFile' = result.file
                /\ step' = "viewing"
                /\ pc' = "idle"
                /\ run' = NoLocals
                /\ UNCHANGED <<sealFile, error>>
    /\ UNCHANGED <<now, senderVars, envVars, effect, userEmail>>

\* ------------------------------------------------------------- handleReset
\* A slip in handleReset: the error of the last run is kept.
handleReset_KeepsError ==
    /\ pc = "idle"
    /\ step \in {"error", "viewing"}
    /\ sealFile' = None
    /\ decryptedFile' = None
    /\ step' = "upload"
    /\ UNCHANGED <<now, senderVars, envVars, effect, userEmail, error, pc, run>>

\* "Try another file" (error step) and "Open another file" (viewing step).
handleReset ==
    /\ pc = "idle"
    /\ step \in {"error", "viewing"}
    /\ sealFile' = None
    /\ decryptedFile' = None
    /\ error' = None
    /\ step' = "upload"
    /\ UNCHANGED <<now, senderVars, envVars, effect, userEmail, pc, run>>

Next ==
    \/ Tick
    \/ MountEffect
    \/ \E file \in Files, recipients \in RecipientLists, fileId \in FileIds,
          metadata \in Metadatas : Seal(file, recipients, fileId, metadata)
    \/ Upload
    \/ CheckExpiry
    \/ CheckRecipient
    \/ LoadPrivateKey
    \/ ImportPrivateKey
    \/ UnwrapKey
    \/ DecryptData
    \/ handleReset

Spec == Init /\ [][Next]_vars

\* The continuation of a running handler is always run in the end: the
\* synchronous part by the engine, each awaited primitive once it settles.
HandlerStep ==
    \/ CheckExpiry
    \/ CheckRecipient
    \/ LoadPrivateKey
    \/ ImportPrivateKey
    \/ UnwrapKey
    \/ DecryptData

SpecLive == Init /\ [][Next]_vars /\ WF_vars(HandlerStep)

\* ====================================================================
\* Runs of handleFileLoaded in flight together
\* ====================================================================
\* handleFileLoaded is an async callback with no guard of its own: it does not
\* look at step and carries no token of the run it belongs to.  While a run
\* awaits openSealFile the event loop is free, and under
\* <AnimatePresence mode="wait"> the upload panel, with its
\* onFileLoaded={handleFileLoaded}, stays mounted until its exit animation has
\* ended, so the callback can be invoked again while the first run is suspended.

\* await: the run's continuation is put aside and the event loop is free.
Suspend ==
    /\ pc \in {"import", "unwrap", "decrypt"}
    /\ Len(pending) < MaxPending
    /\ pending' = Append(pending, [pc |-> pc, run |-> run])
    /\ pc' = "idle"
    /\ run' = NoLocals
    /\ UNCHANGED <<now, senderVars, demoMode, sessionEmail, localStorage, apiVars,
                   siteVars, pageVars, effect, userEmail, viewVars>>

\* The awaited promise settles: the continuation runs once nothing else does.
Resume(i) ==
    /\ pc \in {"idle", "thrown"}
    /\ i \in 1..Len(pending)
    /\ pc' = pending[i].pc
    /\ run' = pending[i].run
    /\ pending' = SubSeq(pending, 1, i - 1) \o SubSeq(pending, i + 1, Len(pending))
    /\ UNCHANGED <<now, senderVars, demoMode, sessionEmail, localStorage, apiVars,
                   siteVars, pageVars, effect, userEmail, viewVars>>

\* onFileLoaded called from the upload panel on its way out, while a run is
\* suspended: the same handler, setSealFile(seal); setStep('validating').
LateFileLoaded(parsed) ==
    /\ pc = "idle"
    /\ step = "decrypting"
    /\ pending # <<>>
    /\ sealFile' = Some(parsed)
    /\ step' = "validating"
    /\ pc' = "expiry"
    /\ run' = [NoLocals EXCEPT !.seal = Some(parsed)]
    /\ UNCHANGED <<now, senderVars, envVars, effect, userEmail, decryptedFile, error>>

LateUpload ==
    \E kind \in TamperKinds :
        /\ built # None
        /\ The(built).result # None
        /\ LateFileLoaded(Tampered(The(The(built).result), kind))

NextOverlap ==
    \/ Tick
    \/ MountEffect
    \/ \E file \in Files, recipients \in RecipientLists, fileId \in FileIds,
          metadata \in Metadatas : Seal(file, recipients, fileId, metadata)
    \/ Upload
    \/ CheckExpiry
    \/ CheckRecipient
    \/ LoadPrivateKey
    \/ ImportPrivateKey
    \/ UnwrapKey
    \/ DecryptData
    \/ handleReset
    \/ Suspend
    \/ \E i \in 1..MaxPending : Resume(i)
    \/ LateUpload

\* One recipient's browser: a session, no stored address, a key of its own.
InitOverlap ==
    /\ Init
    /\ demoMode = FALSE
    /\ sessionEmail = A_X
    /\ localStorage = [seal_user_email |-> None,
                       seal_private_key |-> Some(PrivateKeyBase64("alice"))]

SpecOverlap == InitOverlap /\ [][NextOverlap]_vars

\* ====================================================================
\* Calls of createSealFile and openSealFile in flight together
\* ====================================================================
\* Each call is an async function: it runs from one await to the next without
\* interruption, and between awaits any other call may run.  Its variables are
\* the function's own parameters and consts.
viewerVars == <<now, sealCount, built, envVars, effect, userEmail, viewVars, pc, run>>

\* What the callers ask for.
SealRequests ==
    {[file |-> f, recipients |-> r, fileId |-> "file-1", metadata |-> [expiresAt |-> None]] :
        f \in Files,
        r \in {<<>>,
               <<[email |-> a_x, publicKey |-> PublicKeyBase64(UserOf(a_x))],
                 [email |-> B_x, publicKey |-> PublicKeyBase64(UserOf(B_x))]>>,
               <<[email |-> a_x, publicKey |-> PublicKeyBase64(UserOf(a_x))],
                 [email |-> c_x, publicKey |-> GarbageKeyBase64]>>}}

\* An envelope sealed before these calls began, as sent and with its ciphertext
\* altered.
EarlierSeal ==
    The(createSealFile(CHOOSE f \in Files : f.name = "a.txt",
                       <<[email |-> a_x, publicKey |-> PublicKeyBase64(UserOf(a_x))],
                         [email |-> B_x, publicKey |-> PublicKeyBase64(UserOf(B_x))]>>,
                       "file-0", [expiresAt |-> None], 0, 0))

OpenCalls ==
    {[sealFile |-> e, userEmail |-> c.email, userPrivateKeyBase64 |-> c.key] :
        e \in {EarlierSeal, Tampered(EarlierSeal, "flipCiphertext")},
        c \in {[email |-> A_X, key |-> PrivateKeyBase64("alice")],
               [email |-> b_x, key |-> PrivateKeyBase64("bob")],
               [email |-> a_x, key |-> PrivateKeyBase64("bob")],
               [email |-> c_x, key |-> PrivateKeyBase64("alice")]}}

InitOps ==
    /\ now = 0
    /\ sealCount = 0
    /\ built = None
    /\ demoMode = FALSE
    /\ sessionEmail = NoEmail
    /\ localStorage = [seal_user_email |-> None, seal_private_key |-> None]
    /\ effect = "pending"
    /\ userEmail = NoEmail
    /\ step = "upload"
    /\ sealFile = None
    /\ decryptedFile = None
    /\ error = None
    /\ pc = "idle"
    /\ run = NoLocals
    /\ ops = NoOps
    /\ drawn = 0
    /\ pending = <<>>
    /\ api = NoApi
    /\ sealed_files = {}
    /\ file_recipients = {}
    /\ served = 0
    /\ prof = NoProf
    /\ profiles = [u \in UserIds |-> None]
    /\ user_metadata = [u \in UserIds |-> None]
    /\ nav = None
    /\ logout = "idle"
    /\ bridge = NoBridge

\* Calls are numbered in the order they are made.
CanStart(i) == ops[i].kind = "free" /\ (IF i = 1 THEN TRUE ELSE ops[i - 1].kind # "free")

\* A slip in scoping: aesKey is a variable of the module, not of the call, and
\* holds the key generated or unwrapped last.
aesKeyOf_ModuleScope(i) ==
    LET ks == {The(ops[j].aesKey).k : j \in {j \in 1..MaxOps : ops[j].aesKey # None}}
    IN  Some([type |-> "secret", k |-> CHOOSE k \in ks : \A k2 \in ks : k2 <= k])

\* `const aesKey`: the key of this call.
aesKeyOf(i) == ops[i].aesKey

\* createSealFile is called: file.arrayBuffer() is read, generateKey is pending.
StartSeal(i, request) ==
    /\ CanStart(i)
    /\ ops' = [ops EXCEPT ![i] = [FreeOp EXCEPT !.kind = "seal", !.at = "generateKey",
                                                !.request = Some(request)]]
    /\ UNCHANGED <<drawn, viewerVars>>

\* const aesKey = await generateFileEncryptionKey()
GenerateKey(i) ==
    /\ ops[i].at = "generateKey"
    /\ ops' = [ops EXCEPT ![i].aesKey = Some(generateFileEncryptionKey(drawn + 1)),
                          ![i].at = "encryptFile"]
    /\ drawn' = drawn + 1
    /\ UNCHANGED viewerVars

\* const { encryptedData, iv } = await encryptFile(fileData, aesKey)
EncryptFile(i) ==
    /\ ops[i].at = "encryptFile"
    /\ LET iv == getRandomValues(drawn + 1)
       IN  ops' = [ops EXCEPT ![i].iv = Some(iv),
                              ![i].enc = Some(encryptFile(The(ops[i].request).file.data,
                                                          The(aesKeyOf(i)), iv)),
                              ![i].at = "wrap"]
    /\ drawn' = drawn + 1
    /\ UNCHANGED viewerVars

\* One turn of the loop: import the recipient's key, wrap, push; an import that
\* rejects ends the call.
WrapRecipient(i) ==
    /\ ops[i].at = "wrap"
    /\ Len(ops[i].recipientKeys) < Len(The(ops[i].request).recipients)
    /\ LET recipient == The(ops[i].request).recipients[Len(ops[i].recipientKeys) + 1]
           publicKey == importPublicKey(recipient.publicKey)
       IN  IF publicKey = None
           THEN ops' = [ops EXCEPT ![i].at = "done", ![i].thrown = "DataError"]
           ELSE ops' = [ops EXCEPT ![i].recipientKeys =
                           Append(@, [email |-> recipient.email,
                                      encryptedKey |-> arrayBufferToBase64(
                                          encryptKeyForRecipient(The(aesKeyOf(i)),
                                                                 The(publicKey)))])]
    /\ UNCHANGED <<drawn, viewerVars>>

\* return { version: 1, ... }
ReturnSeal(i) ==
    /\ ops[i].at = "wrap"
    /\ Len(ops[i].recipientKeys) = Len(The(ops[i].request).recipients)
    /\ LET request == The(ops[i].request)
       IN  ops' = [ops EXCEPT
              ![i].at = "done",
              ![i].result =
                  Some([version |-> 1,
                        fileId |-> request.fileId,
                        fileName |-> request.file.name,
                        fileType |-> request.file.type,
                        fileSize |-> request.file.size,
                        encryptedData |-> Some(arrayBufferToBase64(The(ops[i].enc).encryptedData)),
                        iv |-> Some(arrayBufferToBase64(The(ops[i].enc).iv)),
                        recipients |-> Some(ops[i].recipientKeys),
                        metadata |-> Some([expiresAt |-> request.metadata.expiresAt,
                                           createdAt |-> Some(toISOString(now))])])]
    /\ UNCHANGED <<drawn, viewerVars>>

\* openSealFile is called: the entry is looked up; importPrivateKey is pending.
StartOpen(i, call) ==
    /\ CanStart(i)
    /\ LET recipientEntry == find(The(call.sealFile.recipients), call.userEmail)
       IN  ops' = [ops EXCEPT ![i] =
              IF recipientEntry = None
              THEN [FreeOp EXCEPT !.kind = "open", !.at = "done", !.call = Some(call),
                                  !.thrown = "You are not a recipient of this file"]
              ELSE [FreeOp EXCEPT !.kind = "open", !.at = "importPrivateKey",
                                  !.call = Some(call),
                                  !.recipientEntry = recipientEntry]]
    /\ UNCHANGED <<drawn, viewerVars>>

\* const privateKey = await importPrivateKey(userPrivateKeyBase64)
OpenImportKey(i) ==
    /\ ops[i].at = "importPrivateKey"
    /\ LET privateKey == importPrivateKey(The(ops[i].call).userPrivateKeyBase64)
       IN  ops' = IF privateKey = None
                  THEN [ops EXCEPT ![i].at = "done", ![i].thrown = "DataError"]
                  ELSE [ops EXCEPT ![i].at = "decryptKey", ![i].privateKey = privateKey]
    /\ UNCHANGED <<drawn, viewerVars>>

\* const aesKey = await decryptKeyForRecipient(encryptedKeyBuffer, privateKey)
OpenUnwrapKey(i) ==
    /\ ops[i].at = "decryptKey"
    /\ LET aesKey == decryptKeyForRecipient(
                         The(base64ToArrayBuffer(The(ops[i].recipientEntry).encryptedKey)),
                         The(ops[i].privateKey))
       IN  ops' = IF aesKey = None
                  THEN [ops EXCEPT ![i].at = "done", ![i].thrown = "OperationError"]
                  ELSE [ops EXCEPT ![i].at = "decryptFile", ![i].aesKey = aesKey]
    /\ UNCHANGED <<drawn, viewerVars>>

\* const decryptedData = await decryptFile(encryptedData, aesKey, iv); return {...}
OpenDecryptFile(i) ==
    /\ ops[i].at = "decryptFile"
    /\ LET result == OpenResult(The(ops[i].call).sealFile, The(aesKeyOf(i)))
       IN  ops' = [ops EXCEPT ![i].at = "done",
                              ![i].result = result.file,
                              ![i].thrown = result.thrown]
    /\ UNCHANGED <<drawn, viewerVars>>

\* What a call of createSealFile that generated this key and this iv returns
\* when nothing else runs meanwhile.
createSealFileAlone(file, recipients, fileId, metadata, aesKey, iv, t) ==
    LET enc == encryptFile(file.data, aesKey, iv)
        recipientKeys == WrapForAll(recipients, aesKey)
    IN  IF recipientKeys = None THEN None
        ELSE Some([version |-> 1,
                   fileId |-> fileId,
                   fileName |-> file.name,
                   fileType |-> file.type,
                   fileSize |-> file.size,
                   encryptedData |-> Some(arrayBufferToBase64(enc.encryptedData)),
                   iv |-> Some(arrayBufferToBase64(enc.iv)),
                   recipients |-> Some(The(recipientKeys)),
                   metadata |-> Some([expiresAt |-> metadata.expiresAt,
                                      createdAt |-> Some(toISOString(t))])])

\* What a call of openSealFile resolves to when nothing else runs meanwhile:
\* the DecryptedFile, or none and the message of what it threw.
openSealFile(seal, email, userPrivateKeyBase64) ==
    LET recipientEntry == find(The(seal.recipients), email)
        privateKey == importPrivateKey(userPrivateKeyBase64)
    IN  IF recipientEntry = None
        THEN [file |-> None, thrown |-> "You are not a recipient of this file"]
        ELSE IF privateKey = None THEN [file |-> None, thrown |-> "DataError"]
        ELSE LET aesKey == decryptKeyForRecipient(
                               The(base64ToArrayBuffer(The(recipientEntry).encryptedKey)),
                               The(privateKey))
             IN  IF aesKey = None THEN [file |-> None, thrown |-> "OperationError"]
                 ELSE OpenResult(seal, The(aesKey))

NextOps ==
    \/ \E i \in 1..MaxOps, request \in SealRequests : StartSeal(i, request)
    \/ \E i \in 1..MaxOps : GenerateKey(i)
    \/ \E i \in 1..MaxOps : EncryptFile(i)
    \/ \E i \in 1..MaxOps : WrapRecipient(i)
    \/ \E i \in 1..MaxOps : ReturnSeal(i)
    \/ \E i \in 1..MaxOps, call \in OpenCalls : StartOpen(i, call)
    \/ \E i \in 1..MaxOps : OpenImportKey(i)
    \/ \E i \in 1..MaxOps : OpenUnwrapKey(i)
    \/ \E i \in 1..MaxOps : OpenDecryptFile(i)

SpecOps == InitOps /\ [][NextOps]_vars

\* ====================================================================
\* The files API: CORS headers and the file record
\* ====================================================================
\* An Origin header is a text; it is kept as the pieces it is made of.
OriginPieces == {"chrome-extension://", "https://", "seal.email", ".evil.com", "not"}

\* What a browser sends: a scheme, then the host; or an empty header.
Origins ==
    {o \in UNION {[1..n -> OriginPieces] : n \in 0..MaxOriginLen} :
        IF o = <<>> THEN TRUE ELSE o[1] \in {"chrome-extension://", "https://"}}

\* request.headers.get('Origin'): null when the header is absent.
OriginHeaders == {None} \cup {Some(o) : o \in Origins}

\* String.prototype.startsWith / includes for a piece of text.
startsWith(s, piece) == Len(s) >= 1 /\ s[1] = piece
includes(s, piece) == \E i \in 1..Len(s) : s[i] = piece

NoHeaders == [allowOrigin |-> None, allowCredentials |-> None,
              allowMethods |-> None, allowHeaders |-> None]

\* corsHeaders(request)
corsHeaders(originHeader) ==
    LET origin == IF originHeader = None THEN <<>> ELSE The(originHeader)
    IN  IF startsWith(origin, "chrome-extension://") \/ includes(origin, "seal.email")
        THEN [allowOrigin |-> Some(origin), allowCredentials |-> Some("true"),
              allowMethods |-> Some("GET, POST, OPTIONS"),
              allowHeaders |-> Some("Content-Type, Authorization")]
        ELSE NoHeaders

\* What a call answers: an HTTP response, or what storeEncryptedFile returns
\* (status 0, no headers).
Response(status, success, text, fileId, headers) ==
    [status |-> status, success |-> success, error |-> text, fileId |-> fileId,
     headers |-> headers]

\* handleCorsPreFlight(request): NextResponse.json(null, {status: 204, headers})
handleCorsPreFlight(originHeader) ==
    Response(204, TRUE, "", None, corsHeaders(originHeader))

\* Ids of sealed_files rows: POST takes the id from the body, storeEncryptedFile
\* lets the table generate it.
RowIds == {"file-1", "file-2"}

\* An element of recipientEmails as JSON delivers it: a string or something else.
Str(email) == [type |-> "string", value |-> email]
NotAString == [type |-> "number", value |-> NoEmail]

RecipientEmailLists ==
    {None, Some(<<>>), Some(<<Str(A_X)>>), Some(<<Str(a_x), Str(B_x)>>),
     Some(<<Str(a_x), NotAString>>)}

\* await request.json(): none when the body is not JSON.
PostBodies ==
    {None} \cup
    {Some([fileId |-> f, filename |-> n, recipientEmails |-> r]) :
        f \in {None, Some("file-1")}, n \in {None, Some("a.txt")},
        r \in RecipientEmailLists}

\* authenticateRequest(request) / supabase.auth.getUser(): the user, if any.
AuthResults == {None, Some("user-1")}

\* The recipients argument of storeEncryptedFile.
StoreRecipients ==
    {<<>>, <<[email |-> a_x, encrypted_key |-> "k1"]>>,
     <<[email |-> a_x, encrypted_key |-> "k1"], [email |-> B_x, encrypted_key |-> "k2"]>>}

\* What the API never touches: the viewer and the sender.
notApiVars == <<now, senderVars, demoMode, sessionEmail, localStorage, pending,
                siteVars, pageVars, effect, userEmail, viewVars, pc, run>>

\* Where the calls of POST come from: the server side (no Origin), the
\* extension, the site, and a site whose host begins with the site's.
PostOrigins == {None, Some(<<"chrome-extension://", "not">>),
                Some(<<"https://", "seal.email">>),
                Some(<<"https://", "seal.email", ".evil.com">>)}

CanServe == api.at \in {"idle", "done"} /\ served < MaxServed

\* return NextResponse.json(...) / return {...}: the call is over.
Respond(response) ==
    /\ api' = [api EXCEPT !.at = "done", !.response = Some(response)]
    /\ served' = served + 1

\* export async function OPTIONS(request)
OPTIONS(originHeader) ==
    /\ CanServe
    /\ api' = [NoApi EXCEPT !.kind = "OPTIONS", !.at = "done", !.origin = originHeader,
                            !.response = Some(handleCorsPreFlight(originHeader))]
    /\ served' = served + 1
    /\ UNCHANGED <<sealed_files, file_recipients, notApiVars>>

\* POST up to its first insert: authentication, the body, the configuration.
PostStart(originHeader, auth, body, configured) ==
    /\ CanServe
    /\ LET headers == corsHeaders(originHeader)
           started == [NoApi EXCEPT !.kind = "POST", !.at = "insertFile",
                                    !.origin = originHeader, !.body = body]
           answer(r) == /\ api' = [started EXCEPT !.at = "done", !.response = Some(r)]
                        /\ served' = served + 1
       IN  IF auth = None
           THEN answer(Response(401, FALSE, "Not authenticated", None, headers))
           ELSE IF body = None
           THEN answer(Response(500, FALSE, "Internal server error", None, headers))
           ELSE IF The(body).fileId = None \/ The(body).filename = None
                   \/ The(body).recipientEmails = None
                   \/ The(body).recipientEmails = Some(<<>>)
           THEN answer(Response(400, FALSE, "Missing required fields", None, headers))
           ELSE IF ~configured
           THEN answer(Response(500, FALSE, "Server configuration error", None, headers))
           ELSE api' = started /\ UNCHANGED served
    /\ UNCHANGED <<sealed_files, file_recipients, notApiVars>>

\* await adminClient.from('sealed_files').insert({id: fileId, ...}); then the
\* recipient records are built: email.toLowerCase() throws on what is no string,
\* and the catch block answers.
PostInsertFile ==
    /\ api.kind = "POST"
    /\ api.at = "insertFile"
    /\ \E ok \in BOOLEAN :
        LET fileId == The(The(api.body).fileId)
            emails == The(The(api.body).recipientEmails)
            headers == corsHeaders(api.origin)
        IN  IF ~ok \/ fileId \in sealed_files
            THEN /\ Respond(Response(500, FALSE, "Failed to save file metadata", None, headers))
                 /\ UNCHANGED sealed_files
            ELSE /\ sealed_files' = sealed_files \cup {fileId}
                 /\ IF \E i \in 1..Len(emails) : emails[i].type # "string"
                    THEN /\ api' = [api EXCEPT !.at = "done", !.fileRecord = Some(fileId),
                                               !.inserted = TRUE,
                                               !.response = Some(Response(500, FALSE,
                                                   "Internal server error", None, headers))]
                         /\ served' = served + 1
                    ELSE /\ api' = [api EXCEPT !.at = "insertRecipients",
                                               !.fileRecord = Some(fileId),
                                               !.inserted = TRUE]
                         /\ UNCHANGED served
    /\ UNCHANGED <<file_recipients, notApiVars>>

\* The rows POST inserts: recipient_email: email.toLowerCase()
PostRecipientRecords ==
    LET emails == The(The(api.body).recipientEmails)
    IN  {[file_id |-> The(api.fileRecord), recipient_email |-> toLowerCase(emails[i].value)] :
            i \in 1..Len(emails)}

\* await adminClient.from('file_recipients').insert(recipientRecords)
PostInsertRecipients ==
    /\ api.kind = "POST"
    /\ api.at = "insertRecipients"
    /\ \E ok \in BOOLEAN :
        IF ok
        THEN /\ file_recipients' = file_recipients \cup PostRecipientRecords
             /\ Respond(Response(200, TRUE, "", api.fileRecord, corsHeaders(api.origin)))
        ELSE /\ api' = [api EXCEPT !.at = "rollback"]
             /\ UNCHANGED <<file_recipients, served>>
    /\ UNCHANGED <<sealed_files, notApiVars>>

\* await ...from('sealed_files').delete().eq('id', fileRecord.id): what the
\* table holds afterwards; the outcome of the delete is not looked at.
Rollback(ok) == IF ok THEN sealed_files \ {The(api.fileRecord)} ELSE sealed_files

\* if (recipientError) { await delete; return 500 }
PostRollback ==
    /\ api.kind = "POST"
    /\ api.at = "rollback"
    /\ \E ok \in BOOLEAN : sealed_files' = Rollback(ok)
    /\ Respond(Response(500, FALSE, "Failed to save recipient data", None,
                        corsHeaders(api.origin)))
    /\ UNCHANGED <<file_recipients, notApiVars>>

\* storeEncryptedFile up to its first insert: supabase.auth.getUser()
StoreStart(user, recipients) ==
    /\ CanServe
    /\ LET started == [NoApi EXCEPT !.kind = "storeEncryptedFile", !.at = "insertFile",
                                    !.body = Some([recipients |-> recipients])]
       IN  IF user = None
           THEN /\ api' = [started EXCEPT !.at = "done",
                              !.response = Some(Response(0, FALSE, "Not authenticated",
                                                         None, NoHeaders))]
                /\ served' = served + 1
           ELSE api' = started /\ UNCHANGED served
    /\ UNCHANGED <<sealed_files, file_recipients, notApiVars>>

\* await supabase.from('sealed_files').insert({...}).select('id').single()
StoreInsertFile ==
    /\ api.kind = "storeEncryptedFile"
    /\ api.at = "insertFile"
    /\ \E ok \in BOOLEAN, id \in RowIds :
        IF ~ok \/ id \in sealed_files
        THEN /\ Respond(Response(0, FALSE, "Failed to store file", None, NoHeaders))
             /\ UNCHANGED sealed_files
        ELSE /\ sealed_files' = sealed_files \cup {id}
             /\ api' = [api EXCEPT !.at = "insertRecipients", !.fileRecord = Some(id),
                                   !.inserted = TRUE]
             /\ UNCHANGED served
    /\ UNCHANGED <<file_recipients, notApiVars>>

\* The rows storeEncryptedFile inserts: recipient_email: r.email
StoreRecipientRecords ==
    LET recipients == The(api.body).recipients
    IN  {[file_id |-> The(api.fileRecord), recipient_email |-> recipients[i].email] :
            i \in 1..Len(recipients)}

\* await supabase.from('file_recipients').insert(recipientRecords)
StoreInsertRecipients ==
    /\ api.kind = "storeEncryptedFile"
    /\ api.at = "insertRecipients"
    /\ \E ok \in BOOLEAN :
        IF ok
        THEN /\ file_recipients' = file_recipients \cup StoreRecipientRecords
             /\ Respond(Response(0, TRUE, "", api.fileRecord, NoHeaders))
        ELSE /\ api' = [api EXCEPT !.at = "rollback"]
             /\ UNCHANGED <<file_recipients, served>>
    /\ UNCHANGED <<sealed_files, notApiVars>>

\* Clean up the file record on failure; return { error }
StoreRollback ==
    /\ api.kind = "storeEncryptedFile"
    /\ api.at = "rollback"
    /\ \E ok \in BOOLEAN : sealed_files' = Rollback(ok)
    /\ Respond(Response(0, FALSE, "recipientError.message", None, NoHeaders))
    /\ UNCHANGED <<file_recipients, notApiVars>>

NextApi ==
    \/ \E originHeader \in OriginHeaders : OPTIONS(originHeader)
    \/ \E originHeader \in PostOrigins, auth \in AuthResults, body \in PostBodies,
          configured \in BOOLEAN : PostStart(originHeader, auth, body, configured)
    \/ PostInsertFile
    \/ PostInsertRecipients
    \/ PostRollback
    \/ \E user \in AuthResults, recipients \in StoreRecipients : StoreStart(user, recipients)
    \/ StoreInsertFile
    \/ StoreInsertRecipients
    \/ StoreRollback

SpecApi == InitOps /\ [][NextApi]_vars

\* ====================================================================
\* POST /api/profile
\* ====================================================================
\* An Authorization header: none, a Bearer token of a user, a Bearer token no
\* user goes with, or a header of another scheme.
AuthorizationHeaders ==
    {None, Some([scheme |-> "Bearer", user |-> Some("user-1")]),
     Some([scheme |-> "Bearer", user |-> None]),
     Some([scheme |-> "Basic", user |-> Some("user-2")])}

\* The session cookies: the user of the session, if there is one.
SessionCookies == {None} \cup {Some(u) : u \in UserIds}

Unauthenticated == [authenticated |-> FALSE, userId |-> None]

\* authenticateWithToken(token): supabase.auth.getUser(token)
authenticateWithToken(token, anonConfigured) ==
    IF ~anonConfigured THEN Unauthenticated
    ELSE IF token.user = None THEN Unauthenticated
    ELSE [authenticated |-> TRUE, userId |-> token.user]

\* authenticateWithCookies(): supabase.auth.getUser()
authenticateWithCookies(cookie) ==
    IF cookie = None THEN Unauthenticated
    ELSE [authenticated |-> TRUE, userId |-> cookie]

\* authenticateRequest(request): the Bearer token if one is sent, else the cookies.
authenticateRequest(bearer, cookie, anonConfigured) ==
    IF bearer # None /\ The(bearer).scheme = "Bearer"
    THEN authenticateWithToken(The(bearer), anonConfigured)
    ELSE authenticateWithCookies(cookie)

\* await request.json(): none when the body is not JSON; keys is
\* encryptedPrivateKey && salt && iv.
ProfileBodies ==
    {None} \cup
    {Some([userId |-> u, email |-> e, publicKey |-> k, keys |-> s]) :
        u \in {None} \cup {Some(v) : v \in UserIds}, e \in {None, Some(A_X)},
        k \in {None, Some(PublicKeyBase64("alice"))}, s \in BOOLEAN}

\* The two versions of the route: with authenticateRequest, CORS headers and
\* the key metadata, and the earlier one with the cookie session only.
ProfileRoutes == {"profile", "part_000"}

\* !userId || !email || !publicKey
MissingFields(body) == body.userId = None \/ body.email = None \/ body.publicKey = None

\* A slip: the comparison of the two ids is left out.
Mismatch_Ignored(auth, userId) == FALSE

\* auth.authenticated && auth.userId !== userId
Mismatch(auth, userId) == auth.authenticated /\ auth.userId # userId

notProfileVars == <<now, senderVars, demoMode, sessionEmail, localStorage, pending,
                    api, sealed_files, file_recipients, pageVars,
                    effect, userEmail, viewVars, pc, run>>

ProfileHeaders == IF prof.route = "profile" THEN corsHeaders(prof.origin) ELSE NoHeaders

\* return NextResponse.json(...)
ProfileRespond(status, success, text) ==
    /\ prof' = [prof EXCEPT !.at = "done",
                            !.response = Some(Response(status, success, text, None,
                                                       ProfileHeaders))]
    /\ served' = served + 1

\* POST up to the authentication: the body and its required fields.
ProfileStart(route, originHeader, bearer, cookie, body) ==
    /\ prof.at \in {"idle", "done"}
    /\ served < MaxServed
    /\ LET started == [NoProf EXCEPT !.route = route, !.at = "auth",
                                     !.origin = originHeader, !.body = body,
                                     !.bearer = bearer, !.cookie = cookie]
           headers == IF route = "profile" THEN corsHeaders(originHeader) ELSE NoHeaders
           answer(r) == /\ prof' = [started EXCEPT !.at = "done", !.response = Some(r)]
                        /\ served' = served + 1
       IN  IF body = None
           THEN answer(Response(500, FALSE, "Internal server error", None, headers))
           ELSE IF MissingFields(The(body))
           THEN answer(Response(400, FALSE, "Missing required fields", None, headers))
           ELSE prof' = started /\ UNCHANGED served
    /\ UNCHANGED <<profiles, user_metadata, notProfileVars>>

\* await authenticateRequest(request) / supabase.auth.getUser(), the comparison
\* with userId, and the configuration.
ProfileAuthenticate ==
    /\ prof.at = "auth"
    /\ \E anonConfigured \in BOOLEAN, serviceConfigured \in BOOLEAN :
        LET auth == IF prof.route = "profile"
                    THEN authenticateRequest(prof.bearer, prof.cookie, anonConfigured)
                    ELSE authenticateWithCookies(prof.cookie)
        IN  IF Mismatch(auth, The(prof.body).userId)
            THEN /\ prof' = [prof EXCEPT !.at = "done", !.auth = Some(auth),
                                !.response = Some(Response(403, FALSE, "Unauthorized",
                                                           None, ProfileHeaders))]
                 /\ served' = served + 1
            ELSE IF ~serviceConfigured
            THEN /\ prof' = [prof EXCEPT !.at = "done", !.auth = Some(auth),
                                !.response = Some(Response(500, FALSE,
                                    "Server configuration error", None, ProfileHeaders))]
                 /\ served' = served + 1
            ELSE /\ prof' = [prof EXCEPT !.at = "upsert", !.auth = Some(auth)]
                 /\ UNCHANGED served
    /\ UNCHANGED <<profiles, user_metadata, notProfileVars>>

\* await adminClient.from('profiles').upsert({id, email: email.toLowerCase(), public_key})
ProfileUpsert ==
    /\ prof.at = "upsert"
    /\ \E ok \in BOOLEAN :
        LET body == The(prof.body)
            userId == The(body.userId)
        IN  IF ~ok
            THEN /\ ProfileRespond(500, FALSE, "profileError.message")
                 /\ UNCHANGED profiles
            ELSE /\ profiles' = [profiles EXCEPT ![userId] =
                                    Some([email |-> toLowerCase(The(body.email)),
                                          public_key |-> The(body.publicKey)])]
                 /\ IF prof.route = "profile" /\ body.keys
                    THEN prof' = [prof EXCEPT !.at = "metadata"] /\ UNCHANGED served
                    ELSE ProfileRespond(200, TRUE, "")
    /\ UNCHANGED <<user_metadata, notProfileVars>>

\* await adminClient.auth.admin.updateUserById(userId, { user_metadata: {...} })
ProfileUpdateMetadata ==
    /\ prof.at = "metadata"
    /\ \E ok \in BOOLEAN :
        LET body == The(prof.body)
            userId == The(body.userId)
        IN  IF ~ok
            THEN /\ ProfileRespond(500, FALSE, "metaError.message")
                 /\ UNCHANGED user_metadata
            ELSE /\ user_metadata' = [user_metadata EXCEPT ![userId] =
                                         Some([public_key |-> The(body.publicKey),
                                               encrypted_private_key |-> "present"])]
                 /\ ProfileRespond(200, TRUE, "")
    /\ UNCHANGED <<profiles, notProfileVars>>

NextProfile ==
    \/ \E route \in ProfileRoutes, originHeader \in {None, Some(<<"https://", "seal.email">>)},
          bearer \in AuthorizationHeaders, cookie \in SessionCookies,
          body \in ProfileBodies : ProfileStart(route, originHeader, bearer, cookie, body)
    \/ ProfileAuthenticate
    \/ ProfileUpsert
    \/ ProfileUpdateMetadata

SpecProfile == InitOps /\ [][NextProfile]_vars

\* ====================================================================
\* middleware
\* ====================================================================
\* A pathname is a text kept as its pieces; each piece but "x" begins with '/'.
PathPieces == {"/api", "/dashboard", "/viewer", "/login", "/signup", "/", "x"}

Pathnames ==
    {path \in UNION {[1..n -> PathPieces] : n \in 1..MaxPathLen} : path[1] # "x"}

\* pathname.startsWith('/api/')
startsWithApi(path) == Len(path) >= 2 /\ path[1] = "/api" /\ path[2] # "x"

\* The path is the segment itself or lies below it: what '/segment/:path*' of
\* config.matcher matches.
Under(path, segment) == path[1] = segment /\ (IF Len(path) = 1 THEN TRUE ELSE path[2] # "x")

\* config.matcher
matcher(path) ==
    \/ Under(path, "/dashboard") \/ Under(path, "/viewer") \/ Under(path, "/api")
    \/ path = <<"/login">> \/ path = <<"/signup">>

\* A slip: only /dashboard is protected.
middleware_DashboardOnly(path, session) ==
    IF startsWithApi(path) THEN "next"
    ELSE IF startsWith(path, "/dashboard") /\ ~session THEN "/login"
    ELSE IF (path = <<"/login">> \/ path = <<"/signup">>) /\ session THEN "/dashboard"
    ELSE "next"

\* middleware(req): "next" for NextResponse.next(), else where it redirects to.
middleware(path, session) ==
    IF startsWithApi(path) THEN "next"
    ELSE IF (startsWith(path, "/dashboard") \/ startsWith(path, "/viewer")) /\ ~session
    THEN "/login"
    ELSE IF (path = <<"/login">> \/ path = <<"/signup">>) /\ session THEN "/dashboard"
    ELSE "next"

\* A page or API request arrives: the middleware runs on what the matcher lets in.
Navigate(path, session) ==
    /\ nav' = Some([path |-> path, session |-> session,
                    outcome |-> IF matcher(path) THEN middleware(path, session)
                                ELSE "next"])
    /\ UNCHANGED <<now, senderVars, demoMode, sessionEmail, localStorage, pending,
                   apiVars, siteVars, logout, bridge, effect, userEmail, viewVars, pc, run>>

NextMiddleware == \E path \in Pathnames, session \in BOOLEAN : Navigate(path, session)

SpecMiddleware == InitOps /\ [][NextMiddleware]_vars

\* ====================================================================
\* The dashboard's handleLogout, beside the viewer
\* ====================================================================
\* handleLogout up to its await: if (DEMO_MODE) return; else supabase.auth.signOut().
handleLogout ==
    /\ logout = "idle"
    /\ logout' = IF demoMode THEN "done" ELSE "signingOut"
    /\ UNCHANGED <<now, senderVars, demoMode, sessionEmail, localStorage, pending, apiVars,
                   siteVars, nav, bridge, effect, userEmail, viewVars, pc, run>>

\* A slip: the private key is not removed.
removeItems_KeepsKey == [localStorage EXCEPT !.seal_user_email = None]

\* localStorage.removeItem('seal_private_key'); localStorage.removeItem('seal_user_email')
removeItems == [localStorage EXCEPT !.seal_private_key = None, !.seal_user_email = None]

\* signOut has settled (its result is not looked at; on an error the session
\* stays): the two items are removed and the router goes to /login.
SignedOut ==
    /\ logout = "signingOut"
    /\ \E ok \in BOOLEAN : sessionEmail' = IF ok THEN NoEmail ELSE sessionEmail
    /\ localStorage' = removeItems
    /\ logout' = "done"
    /\ UNCHANGED <<now, senderVars, demoMode, pending, apiVars, siteVars, nav, bridge,
                   effect, userEmail, viewVars, pc, run>>

NextLogout ==
    \/ Tick
    \/ MountEffect
    \/ \E file \in Files, recipients \in RecipientLists, fileId \in FileIds,
          metadata \in Metadatas : Seal(file, recipients, fileId, metadata)
    \/ Upload
    \/ CheckExpiry
    \/ CheckRecipient
    \/ LoadPrivateKey
    \/ ImportPrivateKey
    \/ UnwrapKey
    \/ DecryptData
    \/ handleReset
    \/ handleLogout
    \/ SignedOut

\* A device on which a user has logged in: the address and the key are stored.
InitLogout ==
    /\ Init
    /\ localStorage = [seal_user_email |-> Some(b_x),
                       seal_private_key |-> Some(PrivateKeyBase64("alice"))]

SpecLogout == InitLogout /\ [][NextLogout]_vars

\* ====================================================================
\* The extension bridge
\* ====================================================================
\* KNOWN_EXTENSION_IDS: the source ships the empty list and asks for the ids to
\* be added to it, so the list is taken empty and filled.
KnownExtensionIds == UNION {[1..n -> {"ext-1", "ext-2"}] : n \in 0..MaxIds}

\* What the extension hands to the callback: undefined when it is not there.
ExtensionResponses == {None, Some([success |-> TRUE]), Some([success |-> FALSE])}

\* new Promise((resolve) => { sendMessage(id, message, callback); setTimeout(...) }):
\* sendMessage may throw inside the executor, which rejects the promise before
\* the timer is set.
NewTry(id, threw) ==
    IF threw
    THEN [id |-> id, callback |-> "none", timer |-> "unset", state |-> "rejected",
          value |-> None, by |-> "throw", settled |-> 1]
    ELSE [id |-> id, callback |-> "pending", timer |-> "set", state |-> "pending",
          value |-> None, by |-> "", settled |-> 0]

\* A slip: a promise whose later resolve replaces the value of the first.
resolve_Overwrites(try, value, by) ==
    [try EXCEPT !.state = "fulfilled", !.value = value, !.by = by, !.settled = @ + 1]

\* resolve(value): settles a pending promise and does nothing to a settled one.
resolve(try, value, by) ==
    IF try.state = "pending"
    THEN [try EXCEPT !.state = "fulfilled", !.value = value, !.by = by, !.settled = @ + 1]
    ELSE try

notBridgeVars == <<now, senderVars, demoMode, sessionEmail, localStorage, pending, apiVars,
                   siteVars, nav, logout, effect, userEmail, viewVars, pc, run>>

\* sendToExtension up to its first await: no chrome.runtime or no id gives null.
sendToExtension(runtime, ids) ==
    /\ bridge.at = "idle"
    /\ \E threw \in BOOLEAN :
        bridge' = IF ~runtime \/ ids = <<>>
                  THEN [NoBridge EXCEPT !.at = "done", !.runtime = runtime, !.ids = ids]
                  ELSE [NoBridge EXCEPT !.at = "waiting", !.runtime = runtime, !.ids = ids,
                                        !.tries = <<NewTry(ids[1], threw)>>]
    /\ UNCHANGED notBridgeVars

\* (resp) => resolve(resp || null): the callback of attempt i, whenever Chrome
\* calls it.
Callback(i, resp) ==
    /\ i \in 1..Len(bridge.tries)
    /\ bridge.tries[i].callback = "pending"
    /\ bridge' = [bridge EXCEPT !.tries[i] =
                     resolve([@ EXCEPT !.callback = "called"], resp, "callback")]
    /\ UNCHANGED notBridgeVars

\* setTimeout(() => resolve(null), 2000): the timer of attempt i fires.
Timeout(i) ==
    /\ i \in 1..Len(bridge.tries)
    /\ bridge.tries[i].timer = "set"
    /\ bridge' = [bridge EXCEPT !.tries[i] =
                     resolve([@ EXCEPT !.timer = "fired"], None, "timeout")]
    /\ UNCHANGED notBridgeVars

\* The await has settled: return the response, or go on to the next id, or
\* return null after the last.
Continue ==
    /\ bridge.at = "waiting"
    /\ LET n == Len(bridge.tries)
           try == bridge.tries[n]
       IN  /\ try.state # "pending"
           /\ \E threw \in BOOLEAN :
                bridge' = IF try.state = "fulfilled" /\ try.value # None
                          THEN [bridge EXCEPT !.at = "done", !.result = try.value]
                          ELSE IF n < Len(bridge.ids)
                          THEN [bridge EXCEPT !.tries =
                                   Append(@, NewTry(bridge.ids[n + 1], threw))]
                          ELSE [bridge EXCEPT !.at = "done"]
    /\ UNCHANGED notBridgeVars

\* relayAuthToExtension: response !== null && response.success === true
relayAuthToExtension(response) == response # None /\ The(response).success = TRUE

NextBridge ==
    \/ \E runtime \in BOOLEAN, ids \in KnownExtensionIds : sendToExtension(runtime, ids)
    \/ \E i \in 1..MaxIds, resp \in ExtensionResponses : Callback(i, resp)
    \/ \E i \in 1..MaxIds : Timeout(i)
    \/ Continue

\* The browser fires every timer that was set and runs every continuation
\* whose promise has settled.
BridgeStep == Continue \/ \E i \in 1..MaxIds : Timeout(i)

SpecBridge == InitOps /\ [][NextBridge]_vars /\ WF_vars(BridgeStep)

\* ====================================================================
\* Properties
\* ====================================================================
\* The envelope as createSealFile returned it.
BuiltSeal == The(The(built).result)
WasBuilt == built # None /\ The(built).result # None

\* All required fields present, recipients non-empty, version recognized.
FieldsPresent(seal) ==
    /\ seal.metadata # None
    /\ seal.recipients # None
    /\ seal.encryptedData # None
    /\ seal.iv # None
    /\ The(seal.recipients) # <<>>

WellFormed(seal) == FieldsPresent(seal) /\ seal.version = 1

\* The caller's email matches an entry of the list, letter case ignored.
Listed(seal, email) ==
    /\ seal.recipients # None
    /\ \E i \in 1..Len(The(seal.recipients)) :
          toLowerCase(The(seal.recipients)[i].email) = toLowerCase(email)

HasExpiry(seal) == seal.metadata # None /\ The(seal.metadata).expiresAt # None
ExpiryOf(seal) == getTime(The(The(seal.metadata).expiresAt))

Decrypting == pc \in {"import", "unwrap", "decrypt"}

\* C1 -- Round trip: while the viewer opens the envelope exactly as
\* createSealFile returned it, as a listed recipient holding that recipient's
\* private key, no step of the open fails, and the DecryptedFile it ends with
\* carries the sealed file's bytes, name and type.
C1_RoundTrip ==
    [][(/\ WasBuilt
        /\ pc \in {"key", "import", "unwrap", "decrypt"}
        /\ run.seal = Some(BuiltSeal)
        /\ localStorage.seal_private_key = Some(PrivateKeyBase64(UserOf(run.email))))
       => /\ step' # "error"
          /\ step' = "viewing" =>
                decryptedFile' = Some([data |-> The(built).file.data,
                                       fileName |-> The(built).file.name,
                                       fileType |-> The(built).file.type])]_vars

\* The second of two recipients has opened the untouched envelope.
C1_Witness ==
    /\ WasBuilt
    /\ step = "viewing"
    /\ sealFile = Some(BuiltSeal)
    /\ Len(The(built).recipients) = 2
    /\ toLowerCase(The(built).recipients[1].email) # toLowerCase(CallerEmail)
    /\ toLowerCase(The(built).recipients[2].email) = toLowerCase(CallerEmail)
    /\ decryptedFile # None
    /\ The(decryptedFile).data = The(built).file.data

\* C2 -- Non-recipient exclusion: when the authorization check runs on a
\* well-formed envelope (the expiry check has passed) and the caller's email
\* matches no entry, the run ends there in the error step with an error of the
\* unauthorized kind.
C2_NonRecipientExclusion ==
    [][(/\ pc = "auth"
        /\ WellFormed(The(run.seal))
        /\ ~Listed(The(run.seal), CallerEmail))
       => /\ step' = "error"
          /\ pc' = "idle"
          /\ error' # None
          /\ The(error').icon = "unauthorized"]_vars

\* A logged-in caller the envelope does not list has been turned away.
C2_Witness ==
    /\ step = "error"
    /\ The(error).title = "Not authorized"
    /\ WellFormed(The(sealFile))
    /\ CallerEmail # NoEmail
    /\ ~Listed(The(sealFile), CallerEmail)

\* C3 -- Decryption gating: whenever a key-unwrap or decrypt step is pending
\* or a DecryptedFile is shown, the envelope is structurally valid, unexpired
\* and lists the caller.
C3_DecryptionGating ==
    (Decrypting \/ step = "viewing")
        => /\ WellFormed(The(sealFile))
           /\ ~(HasExpiry(The(sealFile)) /\ now > ExpiryOf(The(sealFile)))
           /\ Decrypting => Listed(The(run.seal), run.email)

\* The part of C3 the code keeps: no unwrap or decrypt step for an expired
\* envelope or for a caller the envelope does not list.
C3_GatedByExpiryAndRecipient ==
    (Decrypting \/ step = "viewing")
        => /\ ~(HasExpiry(The(sealFile)) /\ now > ExpiryOf(The(sealFile)))
           /\ Decrypting => Listed(The(run.seal), run.email)

\* The check a failing validation should report, in the order structural,
\* expiry, authorization.
FirstFailure(seal, t) ==
    IF ~WellFormed(seal) THEN "invalid"
    ELSE IF HasExpiry(seal) /\ t > ExpiryOf(seal) THEN "expired"
    ELSE "unauthorized"

\* C4 -- Validation order: a validation that fails reports the first failing
\* check in the order structural, expiry, authorization, and validation passes
\* only for an envelope that passes all three.
C4_ValidationOrder ==
    [][/\ (step = "validating" /\ step' = "error")
            => The(error').icon = FirstFailure(The(sealFile), now)
       /\ (step = "validating" /\ step' = "decrypting")
            => WellFormed(The(sealFile))]_vars

\* The part of C4 the code keeps: expired and not addressed to the caller is
\* reported as expired.
C4_ExpiredBeforeUnauthorized ==
    [][(/\ pc = "expiry"
        /\ HasExpiry(The(run.seal))
        /\ now > ExpiryOf(The(run.seal))
        /\ ~Listed(The(run.seal), CallerEmail))
       => (step' = "error" /\ The(error').icon = "expired")]_vars

\* C5 -- Expiry check: a run fails with the expired kind exactly in the expiry
\* check of an envelope that has an expiresAt with now > expiresAt, and the
\* error then carries that expiry date.
C5_ExpiryCheck ==
    [][LET failsExpired == /\ step # "error"
                           /\ step' = "error"
                           /\ The(error').icon = "expired"
           expired == /\ pc = "expiry"
                      /\ HasExpiry(The(run.seal))
                      /\ now > ExpiryOf(The(run.seal))
       IN  /\ failsExpired <=> expired
           /\ failsExpired =>
                The(error').message.date =
                    Some(toLocaleDateString(ExpiryOf(The(run.seal))))]_vars

\* The expiry check has passed at the expiry instant itself.
C5_Witness ==
    /\ pc = "auth"
    /\ HasExpiry(The(run.seal))
    /\ now = ExpiryOf(The(run.seal))

\* C6 -- Structural check: once validation has begun on an envelope that
\* lacks a required field or has no recipients, the run is failed with the
\* invalid (malformed) kind.
C6_StructuralCheck ==
    (sealFile # None /\ ~FieldsPresent(The(sealFile)) /\ pc # "expiry")
        => (step = "error" /\ The(error).icon = "invalid")

\* C7 -- Version check: an envelope whose version is not 1 is never
\* decrypted, and its run fails with the invalid (malformed) kind.
C7_VersionCheck ==
    (sealFile # None /\ The(sealFile).version # 1)
        => /\ ~Decrypting
           /\ step \notin {"decrypting", "viewing"}
           /\ pc # "expiry" => (step = "error" /\ The(error).icon = "invalid")

\* The first entry of the list that matches the email, letter case ignored.
FirstListed(recipients, email) ==
    LET i == CHOOSE i \in 1..Len(recipients) :
                 /\ toLowerCase(recipients[i].email) = toLowerCase(email)
                 /\ \A j \in 1..(i - 1) :
                       toLowerCase(recipients[j].email) # toLowerCase(email)
    IN  recipients[i]

\* C8 -- Case-insensitive lookup, in both places: the authorization check
\* never turns away a caller whose email matches an entry up to letter case,
\* openSealFile then finds the first such entry, and it never throws its own
\* "not a recipient" after the authorization check has passed.
C8_CaseInsensitiveLookup ==
    /\ Decrypting =>
          /\ run.recipientEntry # None
          /\ The(run.recipientEntry) = FirstListed(The(The(run.seal).recipients), run.email)
    /\ (step = "error" /\ The(error).title = "Not authorized")
          => ~Listed(The(sealFile), The(error).message.email)
    /\ step = "error"
          => The(error).message.text # "You are not authorized to decrypt this file."

\* Sealed for a@x, opened as A@X.
C8_Witness ==
    /\ step = "viewing"
    /\ userEmail = A_X
    /\ \E i \in 1..Len(The(The(sealFile).recipients)) :
          The(The(sealFile).recipients)[i].email = a_x
    /\ \A i \in 1..Len(The(The(sealFile).recipients)) :
          The(The(sealFile).recipients)[i].email # A_X

\* C9 -- Pipeline transitions: inside a run the step changes only
\* validating -> decrypting, validating -> error, decrypting -> viewing and
\* decrypting -> error; outside a run it changes only by a file being loaded
\* (upload -> validating) and by a reset (error or viewing -> upload).
C9_PipelineTransitions ==
    [][step' # step =>
          \/ /\ pc # "idle"
             /\ <<step, step'>> \in {<<"validating", "decrypting">>,
                                     <<"validating", "error">>,
                                     <<"decrypting", "viewing">>,
                                     <<"decrypting", "error">>}
          \/ /\ pc = "idle"
             /\ <<step, step'>> \in {<<"upload", "validating">>,
                                     <<"error", "upload">>,
                                     <<"viewing", "upload">>}]_vars

\* A run has gone all the way to viewing.
C9_Witness ==
    /\ step = "viewing"
    /\ decryptedFile # None
    /\ pc = "idle"

Requested == The(built).recipients
Returned == The(built).result

\* C11 -- All-or-nothing build: when the public key of any requested recipient,
\* at any position, fails to import, createSealFile returns no envelope; an
\* envelope it does return has an entry for every requested recipient.
C11_AllOrNothing ==
    built # None =>
        /\ (\E i \in 1..Len(Requested) :
                importPublicKey(Requested[i].publicKey) = None) => Returned = None
        /\ Returned # None =>
              \A i \in 1..Len(Requested) :
                  \E j \in 1..Len(The(The(Returned).recipients)) :
                      The(The(Returned).recipients)[j].email = Requested[i].email

\* The build failed on the second of two recipients, the first being good.
C11_Witness ==
    /\ built # None
    /\ Returned = None
    /\ Len(Requested) = 2
    /\ importPublicKey(Requested[1].publicKey) # None
    /\ importPublicKey(Requested[2].publicKey) = None

\* C12 -- Empty recipient list: createSealFile given no recipients returns no
\* envelope, so every envelope it returns has a non-empty recipients list.
C12_EmptyRecipientsRejected ==
    built # None =>
        /\ Requested = <<>> => Returned = None
        /\ Returned # None => The(The(Returned).recipients) # <<>>

\* C13 -- One entry per recipient, in order: a returned envelope has as many
\* entries as recipients were requested, and entry i carries recipient i's
\* email as given and the file key wrapped under recipient i's public key.
C13_RecipientEntries ==
    WasBuilt =>
        LET entries == The(BuiltSeal.recipients)
        IN  /\ Len(entries) = Len(Requested)
            /\ \A i \in 1..Len(Requested) :
                  /\ entries[i].email = Requested[i].email
                  /\ The(base64ToArrayBuffer(entries[i].encryptedKey)).wrappedFor
                        = The(importPublicKey(Requested[i].publicKey)).user

\* An envelope for two different recipients, the second written in capitals.
C13_Witness ==
    /\ WasBuilt
    /\ Len(Requested) = 2
    /\ Requested[1].email = a_x
    /\ Requested[2].email = B_x
    /\ Len(The(BuiltSeal.recipients)) = 2

\* The bytes a base64 field of an envelope decodes to.
BytesOf(field) == The(base64ToArrayBuffer(The(field)))

\* The ciphertext or the iv of the envelope is present and decodes to bytes
\* other than those createSealFile produced.
Altered(seal) ==
    /\ WasBuilt
    /\ seal.encryptedData # None
    /\ seal.iv # None
    /\ \/ BytesOf(seal.encryptedData) # BytesOf(BuiltSeal.encryptedData)
       \/ BytesOf(seal.iv) # BytesOf(BuiltSeal.iv)

C15_CauseIndependentError ==
    (step = "error" /\ The(error).icon = "generic")
        => /\ The(error).title = CaughtError("OperationError").title
           /\ The(error).message = CaughtError("OperationError").message

\* What a caller with this email is told when refused, written out in full.
UnauthorizedReport(email) ==
    IF email = NoEmail
    THEN [title |-> "Not logged in", icon |-> "unauthorized",
          message |-> [text |-> "You need to log in to decrypt this file.",
                       date |-> None, email |-> NoEmail, cause |-> ""]]
    ELSE [title |-> "Not authorized", icon |-> "unauthorized",
          message |-> [text |-> "You are not a recipient of this file.",
                       date |-> None, email |-> email, cause |-> ""]]

KindOfStage(p) ==
    CASE p = "expiry" -> "expired"
      [] p = "auth" -> "unauthorized"
      [] OTHER -> "generic"

\* C17 -- Error taxonomy: no exception leaves the handler unreported; every
\* failed run shows one error whose kind is one of invalid, expired,
\* unauthorized, generic (decryption), and the kind is that of the check or
\* step that failed, so an authorization failure is never shown as a
\* decryption failure or the reverse.
C17_ErrorTaxonomy ==
    /\ [](pc # "thrown")
    /\ [](step = "error" =>
            (/\ error # None
             /\ The(error).icon \in {"invalid", "expired", "unauthorized", "generic"}))
    /\ [][(step # "error" /\ step' = "error") =>
             (The(error').icon = KindOfStage(pc))]_vars

\* The part of C17 the code keeps: the failures it does report carry the kind
\* of the failing check or step.
C17_ReportedKinds ==
    /\ [](step = "error" =>
            (/\ error # None
             /\ The(error).icon \in {"expired", "unauthorized", "generic"}))
    /\ [][(step # "error" /\ step' = "error") =>
             (The(error').icon = KindOfStage(pc))]_vars

\* C18 -- Opening never mutates the envelope: from the moment a file is
\* loaded until the reset, through every step of the run and whether it ends
\* in viewing or in error, the envelope the viewer holds and the one the run
\* works on stay field for field what was loaded, and the envelope as built
\* stays as built.
C18_OpenNeverMutates ==
    [][/\ (sealFile # None /\ step' # "upload") => sealFile' = sealFile
       /\ (run.seal # None /\ run'.seal # None) => run'.seal = run.seal
       /\ (run.seal # None) => run.seal = sealFile
       /\ (built # None) => built' = built]_vars

\* A run that got as far as decrypting has failed, and the envelope is still
\* held, recipients and all.
C18_Witness ==
    /\ step = "error"
    /\ The(error).title = "Decryption failed"
    /\ sealFile # None
    /\ The(sealFile).recipients # None
    /\ Len(The(The(sealFile).recipients)) = 2
    /\ The(sealFile).encryptedData # None

\* The key an entry of a recipients list wraps.
WrappedKeyOf(entry) == The(base64ToArrayBuffer(entry.encryptedKey)).raw

SealOps == {i \in 1..MaxOps : ops[i].kind = "seal"}

\* C19 -- Freshness: every call of createSealFile has its own key and its own
\* 12-byte iv, different from those of every other call; the ciphertext is
\* made under that key and iv, every entry wraps that same key, and the
\* envelope returned carries exactly these, so no two envelopes share a key
\* or an iv.
C19_Freshness ==
    /\ \A i \in SealOps :
          /\ ops[i].iv # None => The(ops[i].iv).length = 12
          /\ ops[i].enc # None =>
                /\ The(ops[i].enc).encryptedData.k = The(ops[i].aesKey).k
                /\ The(ops[i].enc).encryptedData.iv = The(ops[i].iv)
                /\ The(ops[i].enc).iv = The(ops[i].iv)
          /\ \A n \in 1..Len(ops[i].recipientKeys) :
                WrappedKeyOf(ops[i].recipientKeys[n]) = The(ops[i].aesKey).k
          /\ ops[i].result # None =>
                /\ BytesOf(The(ops[i].result).encryptedData).k = The(ops[i].aesKey).k
                /\ BytesOf(The(ops[i].result).iv) = The(ops[i].iv)
                /\ \A n \in 1..Len(The(The(ops[i].result).recipients)) :
                      WrappedKeyOf(The(The(ops[i].result).recipients)[n])
                          = The(ops[i].aesKey).k
    /\ \A i, j \in SealOps :
          i # j =>
              /\ (ops[i].aesKey # None /\ ops[j].aesKey # None)
                    => ops[i].aesKey # ops[j].aesKey
              /\ (ops[i].iv # None /\ ops[j].iv # None) => ops[i].iv # ops[j].iv

\* Two calls that ran interleaved (the second drew its key between the first's
\* key and the first's iv) have both returned an envelope for two recipients.
C19_Witness ==
    /\ ops[1].kind = "seal" /\ ops[2].kind = "seal"
    /\ ops[1].result # None /\ ops[2].result # None
    /\ Len(The(The(ops[1].result).recipients)) = 2
    /\ Len(The(The(ops[2].result).recipients)) = 2
    /\ The(ops[1].aesKey).k < The(ops[2].aesKey).k
    /\ The(ops[2].aesKey).k < The(ops[1].iv).random

\* C20 -- Independent concurrent operations: however the steps of the calls in
\* flight interleave, a step of one call changes the locals of that call only,
\* and each finished call has the result it has when run alone: the envelope
\* of its own request, key and iv, or the DecryptedFile / exception of its own
\* envelope, email and private key.
C20_ConcurrentIndependence ==
    /\ [](\A i \in 1..MaxOps :
            ops[i].at = "done" =>
                IF ops[i].kind = "seal"
                THEN ops[i].result =
                        createSealFileAlone(The(ops[i].request).file,
                                            The(ops[i].request).recipients,
                                            The(ops[i].request).fileId,
                                            The(ops[i].request).metadata,
                                            The(ops[i].aesKey), The(ops[i].iv), now)
                ELSE [file |-> ops[i].result, thrown |-> ops[i].thrown] =
                        openSealFile(The(ops[i].call).sealFile,
                                     The(ops[i].call).userEmail,
                                     The(ops[i].call).userPrivateKeyBase64))
    /\ [][\A i, j \in 1..MaxOps :
             (i # j /\ ops'[i] # ops[i]) => ops'[j] = ops[j]]_vars

\* An open made after a seal began has returned its file while the seal is
\* still in its loop.
C20_Witness ==
    /\ ops[1].kind = "seal"
    /\ ops[1].at = "wrap"
    /\ Len(ops[1].recipientKeys) = 1
    /\ ops[2].kind = "open"
    /\ ops[2].at = "done"
    /\ ops[2].result # None

\* The identity an entry's key was wrapped for.
WrappedFor(entry) == The(base64ToArrayBuffer(entry.encryptedKey)).wrappedFor

\* The run is about to unwrap an entry of the envelope as built with the
\* private key of another recipient of that envelope.
ForeignKeyUnwrap ==
    /\ pc = "unwrap"
    /\ WasBuilt
    /\ run.seal = Some(BuiltSeal)
    /\ WrappedFor(The(run.recipientEntry)) # The(run.privateKey).user
    /\ \E i \in 1..Len(The(BuiltSeal.recipients)) :
          WrappedFor(The(BuiltSeal.recipients)[i]) = The(run.privateKey).user

\* C21 -- Independent wrapping: unwrapping one recipient's entry with the
\* private key of another recipient of the same envelope fails; the run ends
\* in the error step with "Decryption failed" and no DecryptedFile, and the
\* decrypt step is only ever reached with the key pair the entry was wrapped
\* for.
C21_IndependentWrapping ==
    /\ [](pc = "decrypt" =>
            WrappedFor(The(run.recipientEntry)) = The(run.privateKey).user)
    /\ [][(ForeignKeyUnwrap /\ pc' # pc) =>
             (/\ step' = "error"
              /\ The(error').title = "Decryption failed"
              /\ decryptedFile' = None)]_vars

\* b@x, listed second, tried the untouched envelope with a@x's private key and
\* was refused.
C21_Witness ==
    /\ step = "error"
    /\ The(error).title = "Decryption failed"
    /\ The(error).message.cause = "OperationError"
    /\ WasBuilt
    /\ sealFile = Some(BuiltSeal)
    /\ Len(Requested) = 2
    /\ Requested[1].email = a_x
    /\ Requested[2].email = B_x
    /\ CallerEmail = b_x
    /\ localStorage.seal_private_key = Some(PrivateKeyBase64("alice"))

Rank(p) ==
    CASE p = "idle" -> 0
      [] p = "expiry" -> 1
      [] p = "auth" -> 2
      [] p = "key" -> 3
      [] p = "import" -> 4
      [] p = "unwrap" -> 5
      [] p = "decrypt" -> 6
      [] OTHER -> 7

\* C23 -- No retry, no key caching: a run only moves forward, one step at a
\* time, so no check or primitive is executed twice in it; the step that fails
\* ends the run and drops its locals; no run is in progress and no key is held
\* between runs; a run starts without a key, and the key it decrypts with is
\* the one unwrapped in this run from the entry of the envelope it is opening.
C23_NoRetryNoCaching ==
    /\ [][pc' # pc =>
             (\/ pc' \in {"idle", "thrown"}
              \/ Rank(pc') = Rank(pc) + 1)]_vars
    /\ [][(step # "error" /\ step' = "error") => (pc' = "idle" /\ run' = NoLocals)]_vars
    /\ [](pc \in {"idle", "thrown"} => run = NoLocals)
    /\ [](pc \in {"expiry", "auth", "key", "import", "unwrap"} => run.aesKey = None)
    /\ [](pc = "decrypt" =>
            run.aesKey =
                decryptKeyForRecipient(
                    The(base64ToArrayBuffer(
                        The(find(The(The(run.seal).recipients), run.email)).encryptedKey)),
                    The(importPrivateKey(The(localStorage.seal_private_key)))))

\* A run that failed in the decrypt step has ended: nothing is running and no
\* key is held.
C23_Witness ==
    /\ step = "error"
    /\ The(error).title = "Decryption failed"
    /\ The(error).message.cause = "OperationError"
    /\ WasBuilt
    /\ Altered(The(sealFile))
    /\ pc = "idle"
    /\ run = NoLocals

\* C24 -- Version, fileId, createdAt: a returned envelope has version 1, the
\* fileId it was given, createdAt equal to the time of the build whether or
\* not the caller's metadata had a createdAt, and the caller's expiresAt as
\* given.
C24_EnvelopeHeader ==
    WasBuilt =>
        /\ BuiltSeal.version = 1
        /\ BuiltSeal.fileId = The(built).fileId
        /\ The(BuiltSeal.metadata).createdAt = Some(toISOString(The(built).at))
        /\ The(BuiltSeal.metadata).expiresAt = The(built).metadata.expiresAt

\* An envelope was built from metadata that had its own, different createdAt
\* and an expiresAt.
C24_Witness ==
    /\ WasBuilt
    /\ The(built).metadata.createdAt # None
    /\ The(built).metadata.createdAt # Some(toISOString(The(built).at))
    /\ The(built).metadata.expiresAt # None

\* C25 -- Pipeline liveness: a run, once started on whatever envelope was
\* loaded, leaves validating and decrypting for viewing or error.
C25_PipelineLiveness ==
    (step \in {"validating", "decrypting"}) ~> (step \in {"viewing", "error"})

\* The part of C25 the code keeps: a run whose handler has not thrown comes to
\* viewing or error, or throws.
C25_LivenessUnlessThrown ==
    (step \in {"validating", "decrypting"})
        ~> (step \in {"viewing", "error"} \/ pc = "thrown")

\* C26 -- Missing private key: a run that has passed validation and finds no
\* private key stored goes from decrypting to error with an error of the
\* generic (decryption) kind; it never starts a key import, unwrap or decrypt
\* and never reaches viewing.
C26_MissingPrivateKey ==
    /\ [](Decrypting => localStorage.seal_private_key # None)
    /\ [](step = "viewing" => localStorage.seal_private_key # None)
    /\ [][(pc = "key" /\ localStorage.seal_private_key = None /\ pc' # pc) =>
             (/\ step = "decrypting"
              /\ step' = "error"
              /\ pc' = "idle"
              /\ The(error').icon = "generic"
              /\ The(error').title = "Private key not found"
              /\ decryptedFile' = None)]_vars

\* A listed recipient of an untouched envelope, with no key on this device, was
\* stopped.
C26_Witness ==
    /\ step = "error"
    /\ The(error).title = "Private key not found"
    /\ localStorage.seal_private_key = None
    /\ WasBuilt
    /\ sealFile = Some(BuiltSeal)
    /\ Listed(BuiltSeal, CallerEmail)

\* ---------------------------------------------------------------- C27
\* Addresses the viewer may act for.
CallerEmails == SessionEmails \cup {The(e) : e \in StoredEmails \ {None}} \cup {demo_seal}

\* C27 (viewer state consistency): in every reachable state, step 'viewing'
\* implies a decrypted file and an envelope are held, step 'error' implies an
\* error record is held, and step 'upload' implies none of envelope, decrypted
\* file or error is held.
C27_ViewerStateConsistency ==
    /\ step = "viewing" => (decryptedFile # None /\ sealFile # None)
    /\ step = "error" => error # None
    /\ step = "upload" => (sealFile = None /\ decryptedFile = None /\ error = None)

\* ---------------------------------------------------------------- C28
\* The held decrypted file is what opening this envelope yields for some caller.
Opens(seal, file) ==
    /\ seal.recipients # None
    /\ \E email \in CallerEmails \ {NoEmail}, key \in StoredKeys \ {None} :
           openSealFile(seal, email, The(key)).file = Some(file)

\* C28 (displayed plaintext matches displayed envelope): whenever step is
\* 'viewing', an envelope is held and the held decrypted file is the result of
\* opening that envelope, however file loads, decryptions and resets interleave.
C28_DisplayedMatchesEnvelope ==
    step = "viewing" =>
        /\ sealFile # None
        /\ decryptedFile # None
        /\ Opens(The(sealFile), The(decryptedFile))

\* ---------------------------------------------------------------- C29
\* The origins the allow-list is meant for: any chrome-extension:// origin and
\* the seal.email origin itself.
SealOrigin == <<"https://", "seal.email">>
AllowedOrigin(origin) == startsWith(origin, "chrome-extension://") \/ origin = SealOrigin

\* A response of OPTIONS or POST is on record.
Answered == api.kind \in {"OPTIONS", "POST"} /\ api.response # None

\* C29 (CORS allow-list): a response carries Access-Control-Allow-Origin and
\* Access-Control-Allow-Credentials exactly when the request's Origin is a
\* chrome-extension:// origin or the seal.email origin, and then echoes that
\* origin; for any other origin and for a missing Origin it carries no CORS header.
C29_CorsAllowList ==
    Answered =>
        LET headers == The(api.response).headers
        IN  IF api.origin # None /\ AllowedOrigin(The(api.origin))
            THEN /\ headers.allowOrigin = api.origin
                 /\ headers.allowCredentials = Some("true")
            ELSE headers = NoHeaders

\* ---------------------------------------------------------------- C30
\* A call of POST /api/files or storeEncryptedFile has returned.
Returned30 == api.kind \in {"POST", "storeEncryptedFile"} /\ api.at = "done"

\* The recipient rows the call was asked to store.
AskedRecipientRecords ==
    IF api.kind = "POST" THEN PostRecipientRecords ELSE StoreRecipientRecords

\* C30 (file-record atomicity): once the call has returned, either it answered
\* success and the sealed_files row and all its file_recipients rows exist, or it
\* answered an error and no sealed_files row inserted by this call remains.
C30_FileRecordAtomicity ==
    Returned30 =>
        IF The(api.response).success
        THEN /\ api.inserted
             /\ The(api.fileRecord) \in sealed_files
             /\ AskedRecipientRecords \subseteq file_recipients
        ELSE ~(api.inserted /\ The(api.fileRecord) \in sealed_files)

\* ---------------------------------------------------------------- C31
\* The call in flight carries a complete body and is authenticated as a user
\* other than the one the body names.
AsOtherUser ==
    /\ prof.auth # None
    /\ The(prof.auth).authenticated
    /\ The(prof.auth).userId # The(prof.body).userId

Status(call) == The(call.response).status

\* C31 (profile write authorization): a request authenticated as a user other
\* than userId is answered 403, a request with a missing userId, email or
\* publicKey is answered 400, and neither writes: every step that changes
\* profiles or user_metadata belongs to a call with a complete body that is
\* not authenticated as another user, and changes the entry of userId only.
C31_ProfileWriteAuthorization ==
    /\ []((prof.at = "done" /\ AsOtherUser) => Status(prof) = 403)
    /\ []((prof.at = "done" /\ prof.body # None /\ MissingFields(The(prof.body)))
             => Status(prof) = 400)
    /\ [][(profiles' # profiles \/ user_metadata' # user_metadata) =>
             (/\ prof.body # None
              /\ ~MissingFields(The(prof.body))
              /\ ~AsOtherUser
              /\ \A u \in UserIds \ The(prof.body).userId :
                     profiles'[u] = profiles[u] /\ user_metadata'[u] = user_metadata[u])]_vars
    /\ [][(prof' # prof /\ prof'.response # None /\ Status(prof') \in {400, 403}) =>
             (/\ profiles' = profiles
              /\ user_metadata' = user_metadata
              /\ prof.at \in {"idle", "done", "auth"})]_vars

\* A request authenticated as user-1 for the profile of user-2 was answered 403
\* and user-2 has no profile and no key metadata.
C31_Witness ==
    /\ prof.at = "done"
    /\ AsOtherUser
    /\ Status(prof) = 403
    /\ The(prof.auth).userId = Some("user-1")
    /\ The(prof.body).userId = Some("user-2")
    /\ profiles["user-2"] = None
    /\ user_metadata["user-2"] = None

\* ---------------------------------------------------------------- C32
\* C32 (route protection): a request without a session for a path under
\* /dashboard or /viewer is redirected to /login, a request with a session for
\* /login or /signup is redirected to /dashboard, and a request under /api/ is
\* passed through.
C32_RouteProtection ==
    nav # None =>
        LET path == The(nav).path
            session == The(nav).session
            outcome == The(nav).outcome
        IN  /\ (~session /\ (Under(path, "/dashboard") \/ Under(path, "/viewer")))
                   => outcome = "/login"
            /\ (session /\ path \in {<<"/login">>, <<"/signup">>}) => outcome = "/dashboard"
            /\ startsWithApi(path) => outcome = "next"

\* A request without a session for a page below /viewer was sent to /login.
C32_Witness ==
    /\ nav # None
    /\ ~The(nav).session
    /\ The(nav).path = <<"/viewer", "/", "x">>
    /\ The(nav).outcome = "/login"

\* ---------------------------------------------------------------- C33
\* C33 as stated (logout clears local key material): once handleLogout has
\* completed, local storage holds neither seal_private_key nor seal_user_email.
C33_LogoutClearsKeys ==
    logout = "done" =>
        (localStorage.seal_private_key = None /\ localStorage.seal_user_email = None)

\* C33 amended: in a build without DEMO_MODE, once handleLogout has completed
\* local storage holds neither item, no viewer run takes its address from
\* local storage, and every viewer run that comes to read the private key ends
\* in an error without a decrypted file.
C33_LogoutClearsKeysUnlessDemo ==
    /\ []((logout = "done" /\ ~demoMode) =>
             (localStorage.seal_private_key = None /\ localStorage.seal_user_email = None))
    /\ [][(logout = "done" /\ ~demoMode /\ pc = "auth" /\ pc' = "key") =>
             run'.email = userEmail]_vars
    /\ [][(logout = "done" /\ ~demoMode /\ pc = "key" /\ pc' # pc) =>
             (step' = "error" /\ pc' = "idle" /\ decryptedFile' = None)]_vars

\* After the logout a viewer run for a listed caller stopped for want of the key.
C33_Witness ==
    /\ logout = "done"
    /\ ~demoMode
    /\ localStorage.seal_private_key = None
    /\ localStorage.seal_user_email = None
    /\ step = "error"
    /\ The(error).title = "Private key not found"

\* ---------------------------------------------------------------- C34
\* The value attempt i came to: none for null and for a rejected promise.
Answer(i) == IF bridge.tries[i].state = "fulfilled" THEN bridge.tries[i].value ELSE None

\* C34 (extension bridge): the ids are tried in order, one attempt after the
\* other; each attempt settles at most once, by its callback, its timer or a
\* throw of sendMessage, whichever comes first; the call returns the first
\* non-null answer, or null when chrome.runtime is missing or no attempt was
\* answered; relayAuthToExtension is true exactly for an answer with
\* success = true; and every call that waits comes to return.
C34_ExtensionBridge ==
    /\ [](\A i \in 1..Len(bridge.tries) :
             /\ bridge.tries[i].id = bridge.ids[i]
             /\ bridge.tries[i].settled <= 1
             /\ (bridge.tries[i].state = "pending") = (bridge.tries[i].settled = 0)
             /\ i < Len(bridge.tries) => (bridge.tries[i].state # "pending" /\ Answer(i) = None))
    /\ [](bridge.at = "done" =>
             /\ ~bridge.runtime => (bridge.result = None /\ bridge.tries = <<>>)
             /\ IF bridge.result # None
                THEN bridge.result = Answer(Len(bridge.tries))
                ELSE /\ \A i \in 1..Len(bridge.tries) : Answer(i) = None
                     /\ bridge.runtime => Len(bridge.tries) = Len(bridge.ids)
             /\ relayAuthToExtension(bridge.result) =
                   (\E i \in 1..Len(bridge.tries) : Answer(i) = Some([success |-> TRUE])))
    /\ [][\A i \in 1..Len(bridge.tries) :
             (i <= Len(bridge'.tries) /\ bridge.tries[i].state # "pending") =>
                 (/\ bridge'.tries[i].state = bridge.tries[i].state
                  /\ bridge'.tries[i].value = bridge.tries[i].value
                  /\ bridge'.tries[i].by = bridge.tries[i].by)]_vars
    /\ (bridge.at = "waiting") ~> (bridge.at = "done")

\* The first id did not answer within the time, the second answered with
\* success, and the first one's callback came late.
C34_Witness ==
    /\ bridge.at = "done"
    /\ Len(bridge.tries) = 2
    /\ bridge.tries[1].by = "timeout"
    /\ bridge.tries[1].callback = "called"
    /\ bridge.tries[2].by = "callback"
    /\ bridge.result = Some([success |-> TRUE])
    /\ relayAuthToExtension(bridge.result)

====
